---- MODULE Spec2Model ----
(***************************************************************************)
(* A model of the stream_ml / stream_mapper core: the mixture composition  *)
(* (CompositeModel), the parameter bounds (ParameterBounds.logpdf), the    *)
(* component model's prior (ModelBase.ln_prior), the parameter store       *)
(* (Params, set_param, unpack_params_from_arr) and the labelled data       *)
(* (Data).                                                                 *)
(*                                                                         *)
(* Every entity is immutable once constructed, so each subsystem is a      *)
(* small state machine: construct an object, then call its operations;     *)
(* the arguments and the outcome of the last call are kept in the state.   *)
(* Each subsystem has its own specification; the variables of the other    *)
(* subsystems stay at their idle values.                                   *)
(***************************************************************************)
EXTENDS Integers, Sequences, FiniteSets, TLC

VARIABLES
    mixture,  \* the CompositeModel: its construction state and _models
    mixOut,   \* the last CompositeModel call: arguments, component calls, result
    bound,    \* the ParameterBounds instance: lower, upper, param_name
    bndOut,   \* the last ParameterBounds.logpdf call
    model,    \* the ModelBase instance: coord_names, coord_bounds, param_bounds, priors
    mdlOut,   \* the last ModelBase.ln_prior call
    params,   \* the Params store built by unpack_params_from_arr
    parOut,   \* the last Params call (lookup, flatitems or add_prefix)
    dat,      \* the Data instance: array and names, or the error of its construction
    datOut    \* the last Data.__getitem__ call

vars == <<mixture, mixOut, bound, bndOut, model, mdlOut, params, parOut, dat, datOut>>

(***************************************************************************)
(* Bounds of the model.                                                    *)
(***************************************************************************)
MaxModels == 2
MaxRows == 2
MaxFlats == 3
MaxParamBounds == 2
MaxPriors == 1
MaxForwardPriors == 2
MaxDataRows == 3
MaxDataCols == 4

(***************************************************************************)
(* Floats.  A float is finite, -inf, +inf or nan.  Finite values are       *)
(* integers here; a log-likelihood is counted in units of ln 2, so that    *)
(* exp of a finite log-likelihood k is the integer 2^k.                    *)
(***************************************************************************)
Fin(n) == [k |-> "fin", n |-> n]
NegInf == [k |-> "-inf", n |-> 0]
PosInf == [k |-> "+inf", n |-> 0]
NaN == [k |-> "nan", n |-> 0]
\* log of an integer that is no power of two: kept as the symbol log(n)
LogOf(n) == [k |-> "log", n |-> n]

\* x + y
Add(x, y) ==
    IF x.k = "nan" \/ y.k = "nan" THEN NaN
    ELSE IF x.k = "-inf" THEN (IF y.k = "+inf" THEN NaN ELSE NegInf)
    ELSE IF x.k = "+inf" THEN (IF y.k = "-inf" THEN NaN ELSE PosInf)
    ELSE IF y.k \in {"-inf", "+inf"} THEN y
    ELSE Fin(x.n + y.n)

\* x <= y (false when either is nan)
Leq(x, y) ==
    IF x.k = "nan" \/ y.k = "nan" THEN FALSE
    ELSE IF x.k = "-inf" \/ y.k = "+inf" THEN TRUE
    ELSE IF x.k = "+inf" \/ y.k = "-inf" THEN FALSE
    ELSE x.n <= y.n

RECURSIVE Pow2(_)
Pow2(n) == IF n = 0 THEN 1 ELSE 2 * Pow2(n - 1)

\* xp.exp on a log-likelihood: exp(-inf) = 0, exp(k ln 2) = 2^k
Exp(x) == IF x.k = "-inf" THEN 0 ELSE Pow2(x.n)

\* xp.log on a likelihood: log(0) = -inf, log(2^k) = k ln 2
Log(n) ==
    IF n = 0 THEN NegInf
    ELSE IF \E e \in 0..n : Pow2(e) = n
         THEN Fin(CHOOSE e \in 0..n : Pow2(e) = n)
         ELSE LogOf(n)

(***************************************************************************)
(* Arrays.  An array is 0-dimensional (one value, xp.zeros(()) or the      *)
(* result of a full reduction) or a column of shape (n_rows, 1).           *)
(***************************************************************************)
Scalar(x) == [ndim |-> 0, v |-> <<x>>]
Column(s) == [ndim |-> 2, v |-> s]
NRows(a) == Len(a.v)

\* a + b with broadcasting of a 0-dimensional operand
ArrAdd(a, b) ==
    IF a.ndim = 0 /\ b.ndim = 0 THEN Scalar(Add(a.v[1], b.v[1]))
    ELSE IF a.ndim = 0 THEN Column([r \in 1..NRows(b) |-> Add(a.v[1], b.v[r])])
    ELSE IF b.ndim = 0 THEN Column([r \in 1..NRows(a) |-> Add(a.v[r], b.v[1])])
    ELSE Column([r \in 1..NRows(a) |-> Add(a.v[r], b.v[r])])

\* the columns of n rows over a set of values
Columns(n, vals) == {Column(s) : s \in [1..n -> vals]}

(***************************************************************************)
(* Idle values of the subsystems.                                          *)
(***************************************************************************)
NoCall == [op |-> "none"]
NoMixture == [state |-> "unconstructed", models |-> <<>>]
NoBound == [state |-> "unconstructed"]
NoModel == [state |-> "unconstructed"]
NoParams == [state |-> "unconstructed"]
NoData == [state |-> "unconstructed"]

mixVars == <<mixture, mixOut>>
bndVars == <<bound, bndOut>>
mdlVars == <<model, mdlOut>>
parVars == <<params, parOut>>
datVars == <<dat, datOut>>

(***************************************************************************)
(* Outcomes of a call: a returned value or a raised exception.             *)
(***************************************************************************)
Ok(x) == [status |-> "ok", value |-> x]
Raise(e) == [status |-> e]

(***************************************************************************)
(* CompositeModel.                                                         *)
(*                                                                         *)
(* A component is given by its param_names (the keys of the dict); the     *)
(* keyword names of **models are distinct by construction, so a component  *)
(* is named by its position.  What a component's own ln_likelihood and     *)
(* ln_prior return is the component's business: the arrays are inputs of   *)
(* the mixture's evaluation.                                               *)
(***************************************************************************)
ParamKeySets == {{"stream_mu"}, {"bkg_mu"}}
Components == [param_names : ParamKeySets]
LnValues == {NegInf, Fin(0), Fin(1)}
LnPriorValues == {NegInf, Fin(0), Fin(-1)}
Inputs == {"batch1", "batch2"}

RECURSIVE SeqsUpTo(_, _)
SeqsUpTo(S, n) ==
    IF n = 0 THEN {<<>>}
    ELSE LET shorter == SeqsUpTo(S, n - 1)
         IN  shorter \cup {Append(s, x) : s \in {t \in shorter : Len(t) = n - 1}, x \in S}

\* CompositeModel.__init__: stores the models; nothing is checked
CompositeModel(ms) == [state |-> "constructed", models |-> ms]

\* CompositeModel.param_names: the merged dict of the components' param_names
CompositeParamNames(ms) == UNION {ms[i].param_names : i \in 1..Len(ms)}

\* [f(model) for model in self._models.values()]: one call per model, in order,
\* each with the arguments the mixture was given
ComponentCalls(ms, args) == [i \in 1..Len(ms) |-> [model |-> i, args |-> args]]

\* xp.stack([xp.exp(model.ln_likelihood(pars, data, *args)) for model in ...])
Liks(ms, ret) == [i \in 1..Len(ms) |-> [r \in 1..NRows(ret[i]) |-> Exp(ret[i].v[r])]]

\* liks.sum(dim=0): for row r, the sum over the stacked models 1..i
RECURSIVE SumDim0(_, _, _)
SumDim0(liks, r, i) == IF i = 0 THEN 0 ELSE SumDim0(liks, r, i - 1) + liks[i][r]

\* CompositeLnLikelihood with the components combined in log space (la + lb)
RECURSIVE AddLogs(_, _, _)
AddLogs(ret, r, i) == IF i = 0 THEN Fin(0) ELSE Add(AddLogs(ret, r, i - 1), ret[i].v[r])

CompositeLnLikelihood_AddsLogs(ms, args, ret) ==
    [op |-> "ln_likelihood", args |-> args, returned |-> ret,
     calls |-> ComponentCalls(ms, args),
     result |->
        IF Len(ms) = 0 THEN Raise("RuntimeError")
        ELSE Ok(Column([r \in 1..NRows(ret[1]) |-> AddLogs(ret, r, Len(ms))]))]

\* CompositeModel.ln_likelihood
CompositeLnLikelihood(ms, args, ret) ==
    [op |-> "ln_likelihood", args |-> args, returned |-> ret,
     calls |-> ComponentCalls(ms, args),
     result |->
        IF Len(ms) = 0 THEN Raise("RuntimeError")  \* stack of an empty list
        ELSE LET liks == Liks(ms, ret)
                 lik == [r \in 1..Len(liks[1]) |-> SumDim0(liks, r, Len(liks))]
             IN  Ok(Column([r \in 1..Len(lik) |-> Log(lik[r])]))]

\* the sum of all elements of one array, added to acc
RECURSIVE SumAll(_, _, _)
SumAll(a, r, acc) == IF r = 0 THEN acc ELSE SumAll(a, r - 1, Add(acc, a.v[r]))

\* xp.stack([...]).sum(): the sum over every element of every stacked array
RECURSIVE StackSum(_, _)
StackSum(ret, i) ==
    IF i = 0 THEN Fin(0) ELSE SumAll(ret[i], Len(ret[i].v), StackSum(ret, i - 1))

\* CompositeModel.ln_prior
CompositeLnPrior(ms, args, ret) ==
    [op |-> "ln_prior", args |-> args, returned |-> ret,
     calls |-> ComponentCalls(ms, args),
     result |->
        IF Len(ms) = 0 THEN Raise("RuntimeError")  \* stack of an empty list
        ELSE Ok(Scalar(StackSum(ret, Len(ms))))]

\* what the components can return for one call: arrays of one common shape
Returned(n, vals, withScalars) ==
    UNION {[1..n -> Columns(rows, vals)] : rows \in 1..MaxRows}
    \cup (IF withScalars THEN [1..n -> {Scalar(x) : x \in vals}] ELSE {})

MixtureInit ==
    /\ mixture.state = "unconstructed"
    /\ \E ms \in SeqsUpTo(Components, MaxModels) : mixture' = CompositeModel(ms)
    /\ UNCHANGED mixOut

MixtureLnLikelihood ==
    /\ mixture.state = "constructed"
    /\ mixOut = NoCall
    /\ \E args \in Inputs, ret \in Returned(Len(mixture.models), LnValues, FALSE) :
          mixOut' = CompositeLnLikelihood(mixture.models, args, ret)
    /\ UNCHANGED mixture

MixtureLnPrior ==
    /\ mixture.state = "constructed"
    /\ mixOut = NoCall
    /\ \E args \in Inputs, ret \in Returned(Len(mixture.models), LnPriorValues, TRUE) :
          mixOut' = CompositeLnPrior(mixture.models, args, ret)
    /\ UNCHANGED mixture

\* the caller takes the result; the mixture is ready for the next call
MixtureReturn ==
    /\ mixOut # NoCall
    /\ mixOut' = NoCall
    /\ UNCHANGED mixture

InitMixture ==
    /\ mixture = NoMixture /\ mixOut = NoCall
    /\ bound = NoBound /\ bndOut = NoCall
    /\ model = NoModel /\ mdlOut = NoCall
    /\ params = NoParams /\ parOut = NoCall
    /\ dat = NoData /\ datOut = NoCall

NextMixture ==
    \/ MixtureInit /\ UNCHANGED <<bndVars, mdlVars, parVars, datVars>>
    \/ MixtureLnLikelihood /\ UNCHANGED <<bndVars, mdlVars, parVars, datVars>>
    \/ MixtureLnPrior /\ UNCHANGED <<bndVars, mdlVars, parVars, datVars>>
    \/ MixtureReturn /\ UNCHANGED <<bndVars, mdlVars, parVars, datVars>>

SpecMixture == InitMixture /\ [][NextMixture]_vars

(***************************************************************************)
(* Keys.  A key is a string, a tuple of strings, or None.                  *)
(***************************************************************************)
Str(k) == [type |-> "str", s |-> <<k>>]
Tup(t) == [type |-> "tuple", s |-> t]
None == [type |-> "None", s |-> <<>>]

LEN_NAME_TUPLE == 2

(***************************************************************************)
(* Params: an insertion-ordered dict.  An entry is a leaf (key, value) or  *)
(* a nested mapping (key, items), whose items are leaves.                  *)
(***************************************************************************)
Leaf(k, v) == [key |-> k, value |-> v]
Mapping(k, items) == [key |-> k, items |-> items]
IsMapping(e) == "items" \in DOMAIN e

\* the position of key k in a dict, 0 when absent
Find(d, k) == IF \E i \in 1..Len(d) : d[i].key = k
              THEN CHOOSE i \in 1..Len(d) : d[i].key = k
              ELSE 0

\* d[k] = e: an existing key keeps its place, a new key goes last
DictSet(d, e) ==
    IF Find(d, e.key) = 0 THEN Append(d, e)
    ELSE [d EXCEPT ![Find(d, e.key)] = e]

\* ParamsGetItem without the final else: a longer tuple is read as its first two names
ParamsGetItem_LongTuple(d, key) ==
    IF key.type = "str" \/ (key.type = "tuple" /\ Len(key.s) = 1)
    THEN IF Find(d, key.s[1]) = 0 THEN Raise("KeyError")
         ELSE Ok(d[Find(d, key.s[1])])
    ELSE IF Len(key.s) >= 2
    THEN IF Find(d, key.s[1]) = 0 THEN Raise("KeyError")
         ELSE LET cm == d[Find(d, key.s[1])]
              IN  IF ~IsMapping(cm) THEN Raise("KeyError")
                  ELSE IF Find(cm.items, key.s[2]) = 0 THEN Raise("KeyError")
                  ELSE Ok(cm.items[Find(cm.items, key.s[2])])
    ELSE Raise("KeyError")

\* Params.__getitem__
ParamsGetItem(d, key) ==
    IF key.type = "str" \/ (key.type = "tuple" /\ Len(key.s) = 1)
    THEN IF Find(d, key.s[1]) = 0 THEN Raise("KeyError")
         ELSE Ok(d[Find(d, key.s[1])])
    ELSE IF Len(key.s) = LEN_NAME_TUPLE
    THEN IF Find(d, key.s[1]) = 0 THEN Raise("KeyError")
         ELSE LET cm == d[Find(d, key.s[1])]
              IN  IF ~IsMapping(cm) THEN Raise("KeyError")
                  ELSE IF Find(cm.items, key.s[2]) = 0 THEN Raise("KeyError")
                  ELSE Ok(cm.items[Find(cm.items, key.s[2])])
    ELSE Raise("KeyError")

\* SetParam whose nested branch starts a fresh sub-dict on every call
SetParam_FreshSubDict(m, key, value) ==
    IF key.type = "str" \/ Len(key.s) = 1
    THEN Ok(DictSet(m, Leaf(key.s[1], value)))
    ELSE IF Len(key.s) = 0 THEN Raise("IndexError")
    ELSE IF Find(m, key.s[1]) # 0 /\ ~IsMapping(m[Find(m, key.s[1])]) THEN Raise("KeyError")
    ELSE Ok(DictSet(m, Mapping(key.s[1], <<Leaf(key.s[2], value)>>)))

\* set_param: the dict after m[key] = value, or the exception raised
SetParam(m, key, value) ==
    IF key.type = "str" \/ Len(key.s) = 1
    THEN Ok(DictSet(m, Leaf(key.s[1], value)))
    ELSE IF Len(key.s) = 0 THEN Raise("IndexError")  \* key[0] of an empty tuple
    ELSE LET m1 == IF Find(m, key.s[1]) = 0
                   THEN Append(m, Mapping(key.s[1], <<>>)) ELSE m
             cm == m1[Find(m1, key.s[1])]
         IN  IF ~IsMapping(cm) THEN Raise("KeyError")
             ELSE Ok([m1 EXCEPT ![Find(m1, key.s[1])] =
                        Mapping(cm.key, DictSet(cm.items, Leaf(key.s[2], value)))])

\* p_arr[:, i : i + 1]: column i of a 2D array, as a column
ColumnSlice(p_arr, i) == Column([r \in 1..Len(p_arr) |-> p_arr[r][i]])

\* the loop of unpack_params_from_arr over flats[i..], from the dict pars
RECURSIVE UnpackFrom(_, _, _, _)
UnpackFrom(pars, flats, p_arr, i) ==
    IF i > Len(flats) THEN Ok(pars)
    ELSE LET set == SetParam(pars, flats[i], ColumnSlice(p_arr, i))
         IN  IF set.status # "ok" THEN set
             ELSE UnpackFrom(set.value, flats, p_arr, i + 1)

\* ModelBase.unpack_params_from_arr (freeze_params keeps keys, values and order)
UnpackParamsFromArr(flats, p_arr) ==
    LET pars == UnpackFrom(<<>>, flats, p_arr, 1)
    IN  IF pars.status = "ok"
        THEN [state |-> "constructed", dict |-> pars.value]
        ELSE [state |-> pars.status]

\* the items one entry of the dict gives to flatitems
FlatOf(e) ==
    IF ~IsMapping(e) THEN <<Leaf(e.key, e.value)>>
    ELSE [j \in 1..Len(e.items) |->
             Leaf(e.key \o "_" \o e.items[j].key, e.items[j].value)]

\* Params.flatitems, from entry i on
RECURSIVE FlatItemsFrom(_, _)
FlatItemsFrom(d, i) ==
    IF i > Len(d) THEN <<>> ELSE FlatOf(d[i]) \o FlatItemsFrom(d, i + 1)

FlatItems(d) == FlatItemsFrom(d, 1)

\* Params.add_prefix: type(self)({f"{prefix}{k}": v for k, v in self.items()})
AddPrefix(d, prefix) == [i \in 1..Len(d) |-> [d[i] EXCEPT !.key = prefix \o d[i].key]]

\* k.startswith(prefix), prefix.endswith(suffix)
StartsWith(k, prefix) == Len(k) >= Len(prefix) /\ SubSeq(k, 1, Len(prefix)) = prefix
EndsWith(k, suffix) ==
    Len(k) >= Len(suffix) /\ SubSeq(k, Len(k) - Len(suffix) + 1, Len(k)) = suffix

\* Params.get_prefixed
GetPrefixed(d, prefix) ==
    LET dotted == IF ~EndsWith(prefix, ".") THEN prefix \o "." ELSE prefix
        lp == Len(dotted)
        Kept(e) == StartsWith(e.key, dotted)
        kept == SelectSeq(d, Kept)
    IN  [i \in 1..Len(kept) |->
            [kept[i] EXCEPT !.key = SubSeq(kept[i].key, lp + 1, Len(kept[i].key))]]

(***************************************************************************)
(* The parameter store as a state machine: a store is unpacked from a      *)
(* schema (param_names.flats) and a raw array, then read.                  *)
(***************************************************************************)
FlatKeys == {<<"weight">>, <<"phi2">>, <<"phi2_mu">>, <<"phi2", "mu">>,
             <<"phi2", "sigma">>, <<"plx", "mu">>}
Schemas == SeqsUpTo({Tup(k) : k \in FlatKeys}, MaxFlats) \ {<<>>}

\* raw arrays of ncols columns whose columns all differ
ParamArrays(ncols) ==
    {[r \in 1..n |-> [i \in 1..ncols |-> Fin(base + 10 * r + i)]] :
        n \in 1..MaxRows, base \in {0, 100}}

LookupKeys ==
    {Str(k) : k \in {"weight", "phi2", "mu", "plx"}}
    \cup {Tup(<<k>>) : k \in {"weight", "phi2", "mu", "plx"}}
    \cup {Tup(<<c, q>>) : c \in {"weight", "phi2", "plx"}, q \in {"mu", "sigma"}}
    \cup {Tup(<<>>), Tup(<<"phi2", "mu", "sigma">>), Tup(<<"weight", "phi2", "mu">>)}

Prefixes == {"stream", "stream."}

ParamsUnpack ==
    /\ params.state = "unconstructed"
    /\ \E flats \in Schemas : \E p_arr \in ParamArrays(Len(flats)) :
          params' = [flats |-> flats, p_arr |-> p_arr] @@ UnpackParamsFromArr(flats, p_arr)
    /\ UNCHANGED parOut

ParamsLookup ==
    /\ params.state = "constructed"
    /\ parOut = NoCall
    /\ \E key \in LookupKeys :
          parOut' = [op |-> "getitem", key |-> key,
                     result |-> ParamsGetItem(params.dict, key)]
    /\ UNCHANGED params

ParamsFlatItems ==
    /\ params.state = "constructed"
    /\ parOut = NoCall
    /\ parOut' = [op |-> "flatitems", result |-> FlatItems(params.dict)]
    /\ UNCHANGED params

ParamsAddPrefix ==
    /\ params.state = "constructed"
    /\ parOut = NoCall
    /\ \E prefix \in Prefixes :
          parOut' = [op |-> "add_prefix", prefix |-> prefix,
                     result |-> AddPrefix(params.dict, prefix)]
    /\ UNCHANGED params

\* get_prefixed on the store
ParamsGetPrefixed ==
    /\ params.state = "constructed"
    /\ parOut = NoCall
    /\ \E prefix \in Prefixes :
          parOut' = [op |-> "get_prefixed", prefix |-> prefix, added |-> <<>>,
                     result |-> GetPrefixed(params.dict, prefix)]
    /\ UNCHANGED params

\* get_prefixed on the store that add_prefix has just returned
ParamsGetPrefixedOfAdded ==
    /\ params.state = "constructed"
    /\ parOut.op = "add_prefix"
    /\ \E prefix \in Prefixes :
          parOut' = [op |-> "get_prefixed", prefix |-> prefix, added |-> <<parOut.prefix>>,
                     result |-> GetPrefixed(parOut.result, prefix)]
    /\ UNCHANGED params

\* the caller takes the result; the store is ready for the next call
ParamsReturn ==
    /\ parOut # NoCall
    /\ parOut' = NoCall
    /\ UNCHANGED params

InitParams == InitMixture

NextParams ==
    \/ ParamsUnpack /\ UNCHANGED <<mixVars, bndVars, mdlVars, datVars>>
    \/ ParamsLookup /\ UNCHANGED <<mixVars, bndVars, mdlVars, datVars>>
    \/ ParamsFlatItems /\ UNCHANGED <<mixVars, bndVars, mdlVars, datVars>>
    \/ ParamsAddPrefix /\ UNCHANGED <<mixVars, bndVars, mdlVars, datVars>>
    \/ ParamsGetPrefixed /\ UNCHANGED <<mixVars, bndVars, mdlVars, datVars>>
    \/ ParamsGetPrefixedOfAdded /\ UNCHANGED <<mixVars, bndVars, mdlVars, datVars>>
    \/ ParamsReturn /\ UNCHANGED <<mixVars, bndVars, mdlVars, datVars>>

SpecParams == InitParams /\ [][NextParams]_vars

(***************************************************************************)
(* ParameterBounds.                                                        *)
(***************************************************************************)
\* current_lnpdf = None
NoneArray == [ndim |-> -1, v |-> <<>>]

\* xp.zeros_like(x)
ZerosLike(x) == [x EXCEPT !.v = [r \in 1..Len(x.v) |-> Fin(0)]]

\* within_bounds(value, lower, upper), elementwise: lower <= value <= upper
WithinBounds(x, lower, upper) ==
    [r \in 1..Len(x.v) |-> Leq(lower, x.v[r]) /\ Leq(x.v[r], upper)]

\* array_at(a, mask).set(value): a with value where the mask holds
ArrayAtSet(a, mask, value) ==
    [a EXCEPT !.v = [r \in 1..Len(a.v) |-> IF mask[r] THEN value ELSE a.v[r]]]

\* ~mask
Not(mask) == [r \in 1..Len(mask) |-> ~mask[r]]

\* BoundLogpdf returning current_lnpdf + penalty
BoundLogpdf_AddsCurrent(b, mpars, current_lnpdf) ==
    IF b.param_name = None THEN Raise("ValueError")
    ELSE LET got == ParamsGetItem(mpars, b.param_name)
         IN  IF got.status # "ok" THEN got
             ELSE IF IsMapping(got.value) THEN Raise("TypeError")
             ELSE LET x == got.value.value
                      bp == ArrayAtSet(ZerosLike(x), Not(WithinBounds(x, b.lower, b.upper)),
                                       NegInf)
                  IN  Ok(IF current_lnpdf = NoneArray THEN bp ELSE ArrAdd(current_lnpdf, bp))

\* BoundLogpdf with one verdict for the whole array: -inf everywhere if any row is outside
BoundLogpdf_AnyRow(b, mpars, current_lnpdf) ==
    IF b.param_name = None THEN Raise("ValueError")
    ELSE LET got == ParamsGetItem(mpars, b.param_name)
         IN  IF got.status # "ok" THEN got
             ELSE IF IsMapping(got.value) THEN Raise("TypeError")
             ELSE LET x == got.value.value
                      out == Not(WithinBounds(x, b.lower, b.upper))
                      any == \E r \in 1..Len(out) : out[r]
                  IN  Ok(ArrayAtSet(ZerosLike(x), [r \in 1..Len(out) |-> any], NegInf))

\* BoundLogpdf that looks the parameter up before it checks param_name
BoundLogpdf_LookupFirst(b, mpars, current_lnpdf) ==
    LET got == ParamsGetItem(mpars, b.param_name)
    IN  IF got.status # "ok" THEN got
        ELSE IF b.param_name = None THEN Raise("ValueError")
        ELSE IF IsMapping(got.value) THEN Raise("TypeError")
        ELSE LET x == got.value.value
             IN  Ok(ArrayAtSet(ZerosLike(x), Not(WithinBounds(x, b.lower, b.upper)), NegInf))

\* ParameterBounds.logpdf
BoundLogpdf(b, mpars, current_lnpdf) ==
    IF b.param_name = None THEN Raise("ValueError")
    ELSE LET got == ParamsGetItem(mpars, b.param_name)
         IN  IF got.status # "ok" THEN got
             ELSE IF IsMapping(got.value) THEN Raise("TypeError")  \* zeros_like of a mapping
             ELSE LET x == got.value.value
                      bp == ZerosLike(x)
                  IN  Ok(ArrayAtSet(bp, Not(WithinBounds(x, b.lower, b.upper)), NegInf))

\* the dataclass ParameterBounds(lower, upper, param_name=...)
ParameterBounds(lower, upper, param_name) ==
    [state |-> "constructed", lower |-> lower, upper |-> upper, param_name |-> param_name]

\* parameter values in units of 1/2: 1 is 0.5, 2 is 1.0, 3 is 1.5
ParamValues == {Fin(-1), Fin(0), Fin(1), Fin(2), Fin(3)}
BoundParamNames == {None, Tup(<<"weight">>), Tup(<<"phi2", "mu">>), Tup(<<"phi2">>)}

\* the stores a bound is evaluated on: empty, or unpacked from a raw array
BoundStores ==
    {<<>>}
    \cup {UnpackParamsFromArr(<<Tup(<<"weight">>)>>, [r \in 1..Len(c) |-> <<c[r]>>]).dict :
            c \in UNION {[1..n -> ParamValues] : n \in 1..MaxRows}}
    \cup {UnpackParamsFromArr(<<Tup(<<"phi2", "mu">>), Tup(<<"weight">>)>>,
                              [r \in 1..Len(c) |-> <<c[r], Fin(1)>>]).dict :
            c \in UNION {[1..n -> ParamValues] : n \in 1..MaxRows}}

\* the rows of a store's arrays (0 for the empty store)
StoreRows(d) == IF d = <<>> THEN 0 ELSE Len(FlatItems(d)[1].value.v)

\* the current_lnpdf a caller can pass to a call on n rows
Currents(n) ==
    {NoneArray, Scalar(Fin(0)), Scalar(Fin(-1)), Scalar(NegInf)}
    \cup (IF n = 0 THEN {} ELSE {Column([r \in 1..n |-> Fin(0 - r)])})

BoundInit ==
    /\ bound.state = "unconstructed"
    /\ \E lower \in {Fin(0), NegInf}, upper \in {Fin(2), PosInf}, pn \in BoundParamNames :
          bound' = ParameterBounds(lower, upper, pn)
    /\ UNCHANGED bndOut

BoundLogpdfCall ==
    /\ bound.state = "constructed"
    /\ bndOut = NoCall
    /\ \E mpars \in BoundStores : \E current \in Currents(StoreRows(mpars)) :
          bndOut' = [op |-> "logpdf", mpars |-> mpars, current |-> current,
                     result |-> BoundLogpdf(bound, mpars, current)]
    /\ UNCHANGED bound

\* the caller takes the result; the bound is ready for the next call
BoundReturn ==
    /\ bndOut # NoCall
    /\ bndOut' = NoCall
    /\ UNCHANGED bound

InitBounds == InitMixture

NextBounds ==
    \/ BoundInit /\ UNCHANGED <<mixVars, mdlVars, parVars, datVars>>
    \/ BoundLogpdfCall /\ UNCHANGED <<mixVars, mdlVars, parVars, datVars>>
    \/ BoundReturn /\ UNCHANGED <<mixVars, mdlVars, parVars, datVars>>

SpecBounds == InitBounds /\ [][NextBounds]_vars

(***************************************************************************)
(* Data: column names and a 2D array (a sequence of rows).                 *)
(***************************************************************************)
Data(array, names) == [array |-> array, names |-> names]

\* Data._n2k[name]: the dict comprehension keeps the last column of a name
N2K(names, name) ==
    CHOOSE i \in 1..Len(names) :
        names[i] = name /\ \A j \in 1..Len(names) : names[j] = name => j <= i

\* Data.__getitem__ with a str key: the column, as a 1D array
DataGetColumn(data, key) ==
    IF \A i \in 1..Len(data.names) : data.names[i] # key THEN Raise("KeyError")
    ELSE Ok([ndim |-> 1,
             v |-> [r \in 1..Len(data.array) |-> data.array[r][N2K(data.names, key)]]])

(***************************************************************************)
(* Data.__getitem__.  Keys are Python values: an int, a str (Str above), a *)
(* slice (step None) of ints or of column names, a list, a tuple.  Indices *)
(* are 0-based and may be negative, as in Python; positions in the         *)
(* sequences are 1-based.                                                  *)
(* The arrays of this part have at least one row, so that shape[1] is the  *)
(* length of the first row.                                                *)
(***************************************************************************)
Idx(i) == [type |-> "int", i |-> i]
\* slice(start, stop): a bound is <<>> for None or <<i>>
Slice(start, stop) == [type |-> "slice", start |-> start, stop |-> stop]
\* slice(from, to) with column names: a bound is <<>> for None or <<name>>
NameSlice(from, to) == [type |-> "slice", from |-> from, to |-> to]
IsNameSlice(key) == key.type = "slice" /\ "from" \in DOMAIN key
List(elts) == [type |-> "list", elts |-> elts]
Tuple(elts) == [type |-> "tuple", elts |-> elts]

\* an array value: 0-, 1- or 2-dimensional
Raw(ndim, v) == [kind |-> "array", ndim |-> ndim, v |-> v]
\* a Data value
Wrapped(d) == [kind |-> "Data", data |-> d]

\* index i of a sequence of length n: negative indices count from the end
PyIndex(i, n) == IF i < 0 THEN i + n ELSE i
InRange(i, n) == PyIndex(i, n) >= 0 /\ PyIndex(i, n) < n
Pos(i, n) == PyIndex(i, n) + 1

\* the positions a slice selects in a sequence of length n (slice.indices)
SliceBound(b, n, default) ==
    IF b = <<>> THEN default
    ELSE LET i == PyIndex(b[1], n)
         IN  IF i < 0 THEN 0 ELSE IF i > n THEN n ELSE i

SliceIndices(sl, n) ==
    LET start == SliceBound(sl.start, n, 0)
        stop == SliceBound(sl.stop, n, n)
    IN  [k \in 1..(IF stop > start THEN stop - start ELSE 0) |-> start + k]

\* what one index of an array of extent n selects: an int one position, a slice
\* a range (basic indexing), a list or tuple of ints the listed positions
\* (advanced indexing); anything else is no index
Sel(key, n) ==
    IF key.type = "int"
    THEN IF InRange(key.i, n) THEN Ok([kind |-> "int", idx |-> <<Pos(key.i, n)>>])
         ELSE Raise("IndexError")
    ELSE IF key.type = "slice"
    THEN Ok([kind |-> "basic", idx |-> SliceIndices(key, n)])
    ELSE IF key.type \in {"list", "tuple"}
    THEN IF \A k \in 1..Len(key.elts) :
                key.elts[k].type = "int" /\ InRange(key.elts[k].i, n)
         THEN Ok([kind |-> "fancy",
                  idx |-> [k \in 1..Len(key.elts) |-> Pos(key.elts[k].i, n)]])
         ELSE Raise("IndexError")
    ELSE Raise("IndexError")

\* self.array[(rk, ck)] on a 2D array: an int drops its dimension; two advanced
\* indices are broadcast against each other and select element by element
ArrayIndex(array, rk, ck) ==
    LET r == Sel(rk, Len(array))
        c == Sel(ck, Len(array[1]))
    IN  IF r.status # "ok" THEN r
        ELSE IF c.status # "ok" THEN c
        ELSE LET R == r.value.idx
                 K == c.value.idx
             IN  IF r.value.kind = "int" /\ c.value.kind = "int"
                 THEN Ok(Raw(0, <<array[R[1]][K[1]]>>))
                 ELSE IF r.value.kind = "int"
                 THEN Ok(Raw(1, [j \in 1..Len(K) |-> array[R[1]][K[j]]]))
                 ELSE IF c.value.kind = "int"
                 THEN Ok(Raw(1, [i \in 1..Len(R) |-> array[R[i]][K[1]]]))
                 ELSE IF r.value.kind = "fancy" /\ c.value.kind = "fancy"
                 THEN IF Len(R) = Len(K) \/ Len(R) = 1 \/ Len(K) = 1
                      THEN Ok(Raw(1, [k \in 1..(IF Len(R) = 1 THEN Len(K) ELSE Len(R)) |->
                                         array[R[IF Len(R) = 1 THEN 1 ELSE k]]
                                              [K[IF Len(K) = 1 THEN 1 ELSE k]]]))
                      ELSE Raise("IndexError")  \* shapes do not broadcast
                 ELSE Ok(Raw(2, [i \in 1..Len(R) |-> [j \in 1..Len(K) |-> array[R[i]][K[j]]]]))

\* DataPostInit without the comparison of the names with the columns
DataPostInit_NoShapeCheck(array, names) ==
    IF array.kind = "array" /\ array.ndim < 2 THEN Raise("IndexError")
    ELSE IF array.kind = "Data" THEN Raise("TypeError")
    ELSE Ok(Wrapped(Data(array.v, names)))

\* Data.__post_init__ on Data(array, names=names); array.shape of a Data is
\* forwarded to its array by __getattr__
DataPostInit(array, names) ==
    IF array.kind = "array" /\ array.ndim < 2 THEN Raise("IndexError")  \* shape[1]
    ELSE LET shape1 == IF array.kind = "Data" THEN Len(array.data.array[1])
                       ELSE Len(array.v[1])
         IN  IF Len(names) # shape1 THEN Raise("ValueError")
             ELSE IF array.kind = "Data" THEN Raise("TypeError")
             ELSE Ok(Wrapped(Data(array.v, names)))

\* _all_strs
AllStrs(elts) == \A i \in 1..Len(elts) : elts[i].type = "str"

HasName(names, name) == \E i \in 1..Len(names) : names[i] = name

\* n2k[b] if isinstance(b, str) else b, for a bound of a slice of names
NamedBound(b, names) == IF b = <<>> THEN <<>> ELSE <<N2K(names, b[1]) - 1>>

\* _parse_key_elt(key, n2k), for the keys above
ParseKeyElt(key, names) ==
    IF key.type = "int" THEN Ok(Tuple(<<key>>))
    ELSE IF key.type = "str"
    THEN IF HasName(names, key.s[1]) THEN Ok(Tuple(<<Idx(N2K(names, key.s[1]) - 1)>>))
         ELSE Raise("KeyError")
    ELSE IF key.type = "list"
    THEN IF \A k \in 1..Len(key.elts) :
                key.elts[k].type = "str" => HasName(names, key.elts[k].s[1])
         THEN Ok(List([k \in 1..Len(key.elts) |->
                          IF key.elts[k].type = "str"
                          THEN Idx(N2K(names, key.elts[k].s[1]) - 1) ELSE key.elts[k]]))
         ELSE Raise("KeyError")
    ELSE IF key.type = "slice"
    THEN IF ~IsNameSlice(key) THEN Ok(key)
         ELSE IF /\ key.from # <<>> => HasName(names, key.from[1])
                 /\ key.to # <<>> => HasName(names, key.to[1])
         THEN Ok(Slice(NamedBound(key.from, names), NamedBound(key.to, names)))
         ELSE Raise("KeyError")
    ELSE IF key.type = "tuple"
    THEN IF ~AllStrs(key.elts) THEN Ok(key)
         ELSE IF \A k \in 1..Len(key.elts) : HasName(names, key.elts[k].s[1])
         THEN Ok(Tuple([k \in 1..Len(key.elts) |-> Idx(N2K(names, key.elts[k].s[1]) - 1)]))
         ELSE Raise("KeyError")
    ELSE Raise("TypeError")

\* CompoundNames giving the selected names in the data's order, not the key's
CompoundNames_OriginalOrder(names, ck) ==
    IF IsNameSlice(ck) THEN Raise("TypeError")  \* self.names[key[1]], a tuple sliced by str
    ELSE IF ck.type = "slice"
    THEN LET idx == SliceIndices(ck, Len(names))
         IN  Ok([k \in 1..Len(idx) |-> names[idx[k]]])
    ELSE IF ck.type = "str" THEN Ok(<<ck.s[1]>>)
    ELSE IF \A k \in 1..Len(ck.elts) :
                ck.elts[k].type = "int" => InRange(ck.elts[k].i, Len(names))
    THEN LET Chosen(name) ==
                 \E k \in 1..Len(ck.elts) :
                     name = IF ck.elts[k].type = "str" THEN ck.elts[k].s[1]
                            ELSE names[Pos(ck.elts[k].i, Len(names))]
         IN  Ok(SelectSeq(names, Chosen))
    ELSE Raise("IndexError")

\* the names of the result of a compound key, from its column part key[1]
CompoundNames(names, ck) ==
    IF IsNameSlice(ck) THEN Raise("TypeError")  \* self.names[key[1]], a tuple sliced by str
    ELSE IF ck.type = "slice"
    THEN LET idx == SliceIndices(ck, Len(names))
         IN  Ok([k \in 1..Len(idx) |-> names[idx[k]]])
    ELSE IF ck.type = "str" THEN Ok(<<ck.s[1]>>)
    ELSE IF \A k \in 1..Len(ck.elts) :
                ck.elts[k].type = "int" => InRange(ck.elts[k].i, Len(names))
    THEN Ok([k \in 1..Len(ck.elts) |->
                IF ck.elts[k].type = "str" THEN ck.elts[k].s[1]
                ELSE names[Pos(ck.elts[k].i, Len(names))]])
    ELSE Raise("IndexError")

\* if array.ndim == 1: array = array[None, :]
AtLeast2D(array) == IF array.ndim = 1 THEN Raw(2, <<array.v>>) ELSE array

\* Data.__getitem__
DataGetItem(d, key) ==
    IF key.type = "int"  \* get a row: self.array[None, key, :]
    THEN IF InRange(key.i, Len(d.array))
         THEN DataPostInit(Raw(2, <<d.array[Pos(key.i, Len(d.array))]>>), d.names)
         ELSE Raise("IndexError")
    ELSE IF key.type = "str"  \* get a column
    THEN LET col == DataGetColumn(d, key.s[1])
         IN  IF col.status # "ok" THEN col ELSE Ok(Raw(1, col.value.v))
    ELSE IF key.type = "tuple"
    THEN IF AllStrs(key.elts)  \* multiple columns
         THEN IF \A k \in 1..Len(key.elts) : HasName(d.names, key.elts[k].s[1])
              THEN DataPostInit(
                       Raw(2, [r \in 1..Len(d.array) |->
                                  [k \in 1..Len(key.elts) |->
                                      d.array[r][N2K(d.names, key.elts[k].s[1])]]]),
                       [k \in 1..Len(key.elts) |-> key.elts[k].s[1]])
              ELSE Raise("KeyError")
         ELSE IF Len(key.elts) > 1 /\ key.elts[2].type = "int"  \* get column
         THEN ArrayIndex(d.array, key.elts[1], key.elts[2])
         ELSE IF Len(key.elts) < 2 THEN Raise("IndexError")  \* key[1]
         ELSE LET parsed == ParseKeyElt(key.elts[2], d.names)
              IN  IF parsed.status # "ok" THEN parsed
                  ELSE LET got == ArrayIndex(d.array, key.elts[1], parsed.value)
                       IN  IF got.status # "ok" THEN got
                           ELSE LET array == AtLeast2D(got.value)
                                    names == CompoundNames(d.names, key.elts[2])
                                IN  IF names.status # "ok" THEN names
                                    ELSE DataPostInit(array, names.value)
    ELSE LET r == Sel(key, Len(d.array))  \* rows: self.array[key]
         IN  IF r.status # "ok" THEN r
             ELSE DataPostInit(Raw(2, [i \in 1..Len(r.value.idx) |-> d.array[r.value.idx[i]]]),
                               d.names)

(***************************************************************************)
(* The labelled data as a state machine: a Data is constructed from an     *)
(* array and names, then indexed.                                          *)
(***************************************************************************)
ColNames == <<"a", "b", "c", "d">>

\* names tuples: the names in alphabetical order, repeats allowed
NameTuples ==
    {[k \in 1..Len(s) |-> ColNames[s[k]]] :
        s \in {t \in SeqsUpTo(1..Len(ColNames), MaxDataCols) :
                  \A k \in 1..(Len(t) - 1) : t[k] <= t[k + 1]}}

\* np.arange(n * m).reshape(n, m)
Arange(n, m) == [r \in 1..n |-> [c \in 1..m |-> Fin((r - 1) * m + (c - 1))]]

\* the array argument: a 2D array, a 1D array, or a Data
DataArgs ==
    {Raw(2, Arange(n, m)) : n \in 1..MaxDataRows, m \in 0..MaxDataCols}
    \cup {Raw(1, <<Fin(0), Fin(1)>>)}
    \cup {Wrapped(Data(Arange(1, m), SubSeq(ColNames, 1, m))) : m \in 1..Len(ColNames)}

RowKeys ==
    {Idx(0), Idx(-1), Slice(<<>>, <<>>), Slice(<<0>>, <<2>>),
     List(<<Idx(0)>>), List(<<Idx(0), Idx(2)>>)}

ColumnKeys ==
    {Idx(0), Idx(2), Str("a"), None,
     Slice(<<>>, <<>>), Slice(<<0>>, <<2>>), Slice(<<1>>, <<3>>),
     NameSlice(<<"a">>, <<"c">>), NameSlice(<<"b">>, <<>>),
     List(<<Idx(0)>>), List(<<Idx(0), Idx(2)>>), List(<<Idx(2), Idx(0)>>),
     List(<<Idx(0), Str("c")>>),
     Tuple(<<Idx(0), Idx(2)>>),
     Tuple(<<Str("a"), Str("b")>>), Tuple(<<Str("b"), Str("a")>>)}

DataKeys ==
    {Idx(0), Idx(1), Idx(-1), Str("a"), Str("c"), Str("e"),
     Slice(<<>>, <<>>), Slice(<<0>>, <<2>>), List(<<Idx(0)>>), List(<<Idx(1), Idx(0)>>),
     Tuple(<<>>), Tuple(<<Str("a")>>), Tuple(<<Str("a"), Str("b")>>),
     Tuple(<<Str("b"), Str("a")>>), Tuple(<<Str("a"), Str("a")>>),
     Tuple(<<Str("c"), Str("a")>>), Tuple(<<Str("a"), Str("e")>>), Tuple(<<Idx(0)>>)}
    \cup {Tuple(<<rk, ck>>) : rk \in RowKeys, ck \in ColumnKeys}

DataInit ==
    /\ dat.state = "unconstructed"
    /\ \E array \in DataArgs, names \in NameTuples :
          LET made == DataPostInit(array, names)
              given == [array |-> array, names |-> names]
          IN  dat' = IF made.status = "ok"
                     THEN [state |-> "constructed", given |-> given,
                           array |-> made.value.data.array, names |-> made.value.data.names]
                     ELSE [state |-> made.status, given |-> given]
    /\ UNCHANGED datOut

\* DataGetItemCall that keeps the selection in the Data it was called on
DataGetItemCall_SelectsInPlace ==
    /\ dat.state = "constructed"
    /\ datOut = NoCall
    /\ \E key \in DataKeys :
          LET result == DataGetItem(Data(dat.array, dat.names), key)
          IN  /\ datOut' = [op |-> "getitem", key |-> key, result |-> result]
              /\ dat' = IF result.status = "ok" /\ result.value.kind = "Data"
                        THEN [dat EXCEPT !.array = result.value.data.array,
                                         !.names = result.value.data.names]
                        ELSE dat

DataGetItemCall ==
    /\ dat.state = "constructed"
    /\ datOut = NoCall
    /\ \E key \in DataKeys :
          datOut' = [op |-> "getitem", key |-> key,
                     result |-> DataGetItem(Data(dat.array, dat.names), key)]
    /\ UNCHANGED dat

\* Data.values: tuple(self[k] for k in self.names)
DataValues(d) == [i \in 1..Len(d.names) |-> DataGetItem(d, Str(d.names[i])).value]

\* Data.items: tuple((k, self[k]) for k in self.names)
DataItems(d) == [i \in 1..Len(d.names) |-> <<Str(d.names[i]), DataValues(d)[i]>>]

DataKeysCall ==
    /\ dat.state = "constructed"
    /\ datOut = NoCall
    /\ datOut' = [op |-> "keys", result |-> dat.names]
    /\ UNCHANGED dat

DataValuesCall ==
    /\ dat.state = "constructed"
    /\ datOut = NoCall
    /\ datOut' = [op |-> "values", result |-> DataValues(Data(dat.array, dat.names))]
    /\ UNCHANGED dat

DataItemsCall ==
    /\ dat.state = "constructed"
    /\ datOut = NoCall
    /\ datOut' = [op |-> "items", result |-> DataItems(Data(dat.array, dat.names))]
    /\ UNCHANGED dat

\* the caller takes the result; the data is ready for the next call
DataReturn ==
    /\ datOut # NoCall
    /\ datOut' = NoCall
    /\ UNCHANGED dat

InitData == InitMixture

NextData ==
    \/ DataInit /\ UNCHANGED <<mixVars, bndVars, mdlVars, parVars>>
    \/ DataGetItemCall /\ UNCHANGED <<mixVars, bndVars, mdlVars, parVars>>
    \/ DataKeysCall /\ UNCHANGED <<mixVars, bndVars, mdlVars, parVars>>
    \/ DataValuesCall /\ UNCHANGED <<mixVars, bndVars, mdlVars, parVars>>
    \/ DataItemsCall /\ UNCHANGED <<mixVars, bndVars, mdlVars, parVars>>
    \/ DataReturn /\ UNCHANGED <<mixVars, bndVars, mdlVars, parVars>>

SpecData == InitData /\ [][NextData]_vars

(***************************************************************************)
(* Prior: logpdf and the forward step are the hooks the caller supplied.   *)
(* A logpdf hook here returns a constant, a value per row, -inf ("veto"),  *)
(* or +inf on the rows where the running total is -inf ("cancel").         *)
(***************************************************************************)
LogpdfHook(kind, pars, current_lnpdf) ==
    IF kind = "const" THEN Scalar(Fin(-1))
    ELSE IF kind = "veto" THEN Scalar(NegInf)
    ELSE IF kind = "cancel"
    THEN [current_lnpdf EXCEPT
             !.v = [r \in 1..Len(current_lnpdf.v) |->
                       IF current_lnpdf.v[r] = NegInf THEN PosInf ELSE Fin(0)]]
    ELSE Column([r \in 1..Len(FlatItems(pars)[1].value.v) |-> Fin(0 - r)])

\* Prior.logpdf
PriorLogpdf(prior, pars, current_lnpdf) ==
    Ok(LogpdfHook(prior.logpdf_hook, pars, current_lnpdf))

(***************************************************************************)
(* ModelBase.                                                              *)
(***************************************************************************)
WEIGHT_NAME == "weight"

\* d.pop(k, default): the value, and the dict without k
DictPop(d, k, default) ==
    IF Find(d, k) = 0 THEN [value |-> default, rest |-> d]
    ELSE [value |-> d[Find(d, k)].value,
          rest |-> SubSeq(d, 1, Find(d, k) - 1) \o SubSeq(d, Find(d, k) + 1, Len(d))]

\* {n: crnt_cbs.pop(n, (-inf, inf)) for n in self.coord_names}, from name i on
RECURSIVE CompleteCoordBounds(_, _, _, _)
CompleteCoordBounds(crnt_cbs, cbs, coord_names, i) ==
    IF i > Len(coord_names) THEN [crnt_cbs |-> crnt_cbs, cbs |-> cbs]
    ELSE LET popped == DictPop(crnt_cbs, coord_names[i], <<NegInf, PosInf>>)
         IN  CompleteCoordBounds(popped.rest,
                                 DictSet(cbs, Leaf(coord_names[i], popped.value)),
                                 coord_names, i + 1)

\* the ValueError of __post_init__: its message and the keys the message shows
PostInitError(text, keys) == [state |-> "ValueError", msg |-> text, keys |-> keys]

\* ModelPostInit without the test for keys left in crnt_cbs
ModelPostInit_KeepsExtraKeys(coord_names, coord_bounds, param_names, param_bounds, priors) ==
    IF Len(param_names) = 0 THEN PostInitError("param_names must be specified", <<>>)
    ELSE LET done == CompleteCoordBounds(coord_bounds, <<>>, coord_names, 1)
         IN  [state |-> "constructed", coord_names |-> coord_names,
              coord_bounds |-> done.cbs, param_names |-> param_names,
              param_bounds |-> param_bounds, priors |-> priors]

\* ModelBase.__post_init__
ModelPostInit(coord_names, coord_bounds, param_names, param_bounds, priors) ==
    IF Len(param_names) = 0 THEN PostInitError("param_names must be specified", <<>>)
    ELSE LET done == CompleteCoordBounds(coord_bounds, <<>>, coord_names, 1)
         IN  IF Len(done.crnt_cbs) # 0
             THEN PostInitError("coord_bounds contains invalid keys",
                                [i \in 1..Len(done.crnt_cbs) |-> done.crnt_cbs[i].key])
             ELSE [state |-> "constructed", coord_names |-> coord_names,
                   coord_bounds |-> done.cbs, param_names |-> param_names,
                   param_bounds |-> param_bounds, priors |-> priors]

\* a | b, elementwise
LogicalOr(a, b) == [r \in 1..Len(a) |-> a[r] \/ b[r]]

\* reduce(logical_or, (~within_bounds(data[k], *v) for k, v in coord_bounds.items())),
\* over the items i.. with acc the value so far
RECURSIVE ReduceOutside(_, _, _, _)
ReduceOutside(cbs, data, acc, i) ==
    IF i > Len(cbs) THEN Ok(acc)
    ELSE LET col == DataGetColumn(data, cbs[i].key)
         IN  IF col.status # "ok" THEN col
             ELSE LET out == Not(WithinBounds(col.value, cbs[i].value[1], cbs[i].value[2]))
                  IN  ReduceOutside(cbs, data, IF i = 1 THEN out ELSE LogicalOr(acc, out),
                                    i + 1)

\* ModelBase._ln_prior_coord_bnds
LnPriorCoordBnds(m, mpars, data) ==
    LET w == ParamsGetItem(mpars, Tup(<<WEIGHT_NAME>>))
    IN  IF w.status # "ok" THEN w
        ELSE IF IsMapping(w.value) THEN Raise("TypeError")
        ELSE IF Len(m.coord_bounds) = 0
             THEN Raise("TypeError")  \* reduce() of an empty iterable with no initial value
        ELSE LET where == ReduceOutside(m.coord_bounds, data, <<>>, 1)
             IN  IF where.status # "ok" THEN where
                 ELSE IF Len(where.value) # Len(w.value.value.v) THEN Raise("IndexError")
                 ELSE Ok(ArrayAtSet(ZerosLike(w.value.value), where.value, NegInf))

\* for bounds in self.param_bounds.flatvalues(): lnp = lnp + bounds.logpdf(..., lnp)
RECURSIVE AddBounds(_, _, _, _)
AddBounds(bounds, mpars, lnp, i) ==
    IF i > Len(bounds) THEN Ok(lnp)
    ELSE LET pdf == BoundLogpdf(bounds[i], mpars, lnp)
         IN  IF pdf.status # "ok" THEN pdf
             ELSE AddBounds(bounds, mpars, ArrAdd(lnp, pdf.value), i + 1)

\* for prior in self.priors: lnp = lnp + prior.logpdf(..., lnp)
RECURSIVE AddPriors(_, _, _, _)
AddPriors(priors, mpars, lnp, i) ==
    IF i > Len(priors) THEN Ok(lnp)
    ELSE LET pdf == PriorLogpdf(priors[i], mpars, lnp)
         IN  IF pdf.status # "ok" THEN pdf
             ELSE AddPriors(priors, mpars, ArrAdd(lnp, pdf.value), i + 1)

\* ModelBase.ln_prior
ModelLnPrior(m, mpars, data, current_lnp) ==
    LET lnp == IF current_lnp = NoneArray THEN Scalar(Fin(0)) ELSE current_lnp
        coord == LnPriorCoordBnds(m, mpars, data)
    IN  IF coord.status # "ok" THEN coord
        ELSE LET bnds == AddBounds(m.param_bounds, mpars, ArrAdd(lnp, coord.value), 1)
             IN  IF bnds.status # "ok" THEN bnds
                 ELSE AddPriors(m.priors, mpars, bnds.value, 1)

(***************************************************************************)
(* The forward step.  ParameterBounds.__call__ is abstract and the forward *)
(* step of a prior is a hook: a forward step is kept as the term of its    *)
(* application, the function applied and the argument it was given.        *)
(***************************************************************************)
RawOutput(n) == [raw |-> n]
Applied(fn, arg) == [fn |-> fn, arg |-> arg]

\* bnd(pred, data, model)
BoundForward(bnd, pred, data) == Applied([kind |-> "bound", bound |-> bnd], pred)

\* Prior.__call__: self.forward_hook(x, model)
PriorForward(prior, x) == Applied([kind |-> "hook", hook |-> prior.forward_hook], x)

\* for bnd in self.param_bounds.flatvalues(): out = bnd(out, data, self)
RECURSIVE ForwardBounds(_, _, _, _)
ForwardBounds(bounds, out, data, i) ==
    IF i > Len(bounds) THEN out
    ELSE ForwardBounds(bounds, BoundForward(bounds[i], out, data), data, i + 1)

\* for prior in self.priors: out = prior(out, data, self)
RECURSIVE ForwardHooks(_, _, _, _)
ForwardHooks(priors, out, data, i) ==
    IF i > Len(priors) THEN out
    ELSE ForwardHooks(priors, PriorForward(priors[i], out), data, i + 1)

\* ForwardPriors that runs the hooks of the priors before the bounds
ForwardPriors_HooksFirst(m, out, data) ==
    ForwardBounds(m.param_bounds, ForwardHooks(m.priors, out, data, 1), data, 1)

\* ModelBase._forward_priors
ForwardPriors(m, out, data) ==
    ForwardHooks(m.priors, ForwardBounds(m.param_bounds, out, data, 1), data, 1)

(***************************************************************************)
(* The component model as a state machine: a model is constructed, then    *)
(* evaluated on a store and a Data of the same rows.                       *)
(***************************************************************************)
CoordNames == {"phi2", "plx"}
CoordNameSeqs == SeqsUpTo(CoordNames, Cardinality(CoordNames))

\* coord_bounds as the caller gives them: (0, 1) for some of the coordinates
GivenCoordBounds ==
    {<<>>, <<Leaf("phi2", <<Fin(0), Fin(1)>>)>>, <<Leaf("plx", <<Fin(0), Fin(1)>>)>>,
     <<Leaf("phi2", <<Fin(0), Fin(1)>>), Leaf("plx", <<Fin(0), Fin(1)>>)>>}

\* the names of a sequence, each once, in order of first appearance
RECURSIVE Distinct(_)
Distinct(names) ==
    IF names = <<>> THEN <<>>
    ELSE LET front == Distinct(SubSeq(names, 1, Len(names) - 1))
             last == names[Len(names)]
         IN  IF \E i \in 1..Len(front) : front[i] = last THEN front
             ELSE Append(front, last)

\* the Data of n rows with the given columns, over a set of values
Datas(names, n, vals) == {Data(a, names) : a \in [1..n -> [1..Len(names) -> vals]]}

\* the store of a model whose only parameter is the weight
WeightStore(c) ==
    UnpackParamsFromArr(<<Tup(<<WEIGHT_NAME>>)>>, [r \in 1..Len(c) |-> <<c[r]>>]).dict

\* the parameter bounds and priors of the models of SpecLnPrior
WeightBounds ==
    {ParameterBounds(Fin(0), Fin(2), Tup(<<WEIGHT_NAME>>)),
     ParameterBounds(Fin(2), PosInf, Tup(<<WEIGHT_NAME>>))}
Priors == {[logpdf_hook |-> "const"], [logpdf_hook |-> "rows"]}

\* the model after __post_init__, with the arguments the caller gave
Constructed(made, coord_names, coord_bounds, param_names) ==
    LET given == [coord_names |-> coord_names, coord_bounds |-> coord_bounds,
                  param_names |-> param_names]
    IN  IF made.state = "constructed"
        THEN [state |-> "constructed", coord_names |-> made.coord_names,
              coord_bounds |-> made.coord_bounds, param_names |-> made.param_names,
              param_bounds |-> made.param_bounds, priors |-> made.priors,
              given |-> given]
        ELSE [state |-> made.state, msg |-> made.msg, keys |-> made.keys, given |-> given]

ModelInitCoords ==
    /\ model.state = "unconstructed"
    /\ \E coord_names \in CoordNameSeqs, coord_bounds \in GivenCoordBounds,
          param_names \in {<<>>, <<Tup(<<WEIGHT_NAME>>)>>} :
          model' = Constructed(ModelPostInit(coord_names, coord_bounds, param_names,
                                             <<>>, <<>>),
                               coord_names, coord_bounds, param_names)
    /\ UNCHANGED mdlOut

ModelLnPriorCoordBndsCall ==
    /\ model.state = "constructed"
    /\ mdlOut = NoCall
    /\ \E n \in 1..MaxRows :
          \E data \in Datas(Distinct(model.coord_names), n, {Fin(-1), Fin(0), Fin(1), Fin(2)}) :
             LET mpars == WeightStore([r \in 1..n |-> Fin(1)])
             IN  mdlOut' = [op |-> "_ln_prior_coord_bnds", mpars |-> mpars, data |-> data,
                            result |-> LnPriorCoordBnds(model, mpars, data)]
    /\ UNCHANGED model

\* the caller takes the result; the model is ready for the next call
ModelReturn ==
    /\ mdlOut # NoCall
    /\ mdlOut' = NoCall
    /\ UNCHANGED model

InitCoords == InitMixture

NextCoords ==
    \/ ModelInitCoords /\ UNCHANGED <<mixVars, bndVars, parVars, datVars>>
    \/ ModelLnPriorCoordBndsCall /\ UNCHANGED <<mixVars, bndVars, parVars, datVars>>
    \/ ModelReturn /\ UNCHANGED <<mixVars, bndVars, parVars, datVars>>

SpecCoords == InitCoords /\ [][NextCoords]_vars

ModelInitPriors ==
    /\ model.state = "unconstructed"
    /\ \E coord_names \in {<<>>, <<"phi2">>},
          coord_bounds \in {<<>>, <<Leaf("phi2", <<Fin(0), Fin(1)>>)>>},
          param_bounds \in SeqsUpTo(WeightBounds, MaxParamBounds),
          priors \in SeqsUpTo(Priors, MaxPriors) :
          model' = ModelPostInit(coord_names, coord_bounds, <<Tup(<<WEIGHT_NAME>>)>>,
                                 param_bounds, priors)
    /\ UNCHANGED mdlOut

ModelLnPriorCall ==
    /\ model.state = "constructed"
    /\ mdlOut = NoCall
    /\ \E n \in 1..MaxRows :
          \E data \in Datas(model.coord_names, n, {Fin(0), Fin(2)}),
             weight \in [1..n -> {Fin(2), Fin(3)}],
             current \in Currents(n) :
             LET mpars == WeightStore(weight)
             IN  mdlOut' = [op |-> "ln_prior", mpars |-> mpars, data |-> data,
                            current |-> current,
                            result |-> ModelLnPrior(model, mpars, data, current)]
    /\ UNCHANGED model

InitLnPrior == InitMixture

NextLnPrior ==
    \/ ModelInitPriors /\ UNCHANGED <<mixVars, bndVars, parVars, datVars>>
    \/ ModelLnPriorCall /\ UNCHANGED <<mixVars, bndVars, parVars, datVars>>
    \/ ModelReturn /\ UNCHANGED <<mixVars, bndVars, parVars, datVars>>

SpecLnPrior == InitLnPrior /\ [][NextLnPrior]_vars

(***************************************************************************)
(* The order of evaluation: models whose bounds and priors tell the order  *)
(* they ran in.  A bound with no param_name raises ValueError and one of   *)
(* a parameter the store lacks raises KeyError; the logpdf hooks veto and  *)
(* cancel do not commute with the penalties before them.                   *)
(***************************************************************************)
OrderedBounds ==
    {ParameterBounds(Fin(0), Fin(2), Tup(<<WEIGHT_NAME>>)),
     ParameterBounds(Fin(0), Fin(2), None),
     ParameterBounds(Fin(0), Fin(2), Tup(<<"phi2", "mu">>))}
OrderedPriors ==
    {[logpdf_hook |-> "cancel", forward_hook |-> "shift"],
     [logpdf_hook |-> "veto", forward_hook |-> "scale"]}

ModelInitOrdered ==
    /\ model.state = "unconstructed"
    /\ \E coord_names \in {<<>>, <<"phi2">>},
          param_bounds \in SeqsUpTo(OrderedBounds, MaxParamBounds),
          priors \in SeqsUpTo(OrderedPriors, MaxForwardPriors) :
          model' = ModelPostInit(coord_names,
                                 [i \in 1..Len(coord_names) |->
                                     Leaf(coord_names[i], <<Fin(0), Fin(1)>>)],
                                 <<Tup(<<WEIGHT_NAME>>)>>, param_bounds, priors)
    /\ UNCHANGED mdlOut

ModelForwardPriorsCall ==
    /\ model.state = "constructed"
    /\ mdlOut = NoCall
    /\ \E out \in {RawOutput(0), RawOutput(1)} :
          \E data \in Datas(model.coord_names, 1, {Fin(0)}) :
             mdlOut' = [op |-> "_forward_priors", out |-> out, data |-> data,
                        result |-> ForwardPriors(model, out, data)]
    /\ UNCHANGED model

ModelLnPriorOrderedCall ==
    /\ model.state = "constructed"
    /\ mdlOut = NoCall
    /\ \E n \in 1..MaxRows :
          \E data \in Datas(model.coord_names, n, {Fin(0), Fin(2)}),
             weight \in [1..n -> {Fin(2), Fin(3)}],
             current \in {NoneArray, Scalar(Fin(-1))} :
             LET mpars == WeightStore(weight)
             IN  mdlOut' = [op |-> "ln_prior", mpars |-> mpars, data |-> data,
                            current |-> current,
                            result |-> ModelLnPrior(model, mpars, data, current)]
    /\ UNCHANGED model

InitOrder == InitMixture

NextOrder ==
    \/ ModelInitOrdered /\ UNCHANGED <<mixVars, bndVars, parVars, datVars>>
    \/ ModelForwardPriorsCall /\ UNCHANGED <<mixVars, bndVars, parVars, datVars>>
    \/ ModelLnPriorOrderedCall /\ UNCHANGED <<mixVars, bndVars, parVars, datVars>>
    \/ ModelReturn /\ UNCHANGED <<mixVars, bndVars, parVars, datVars>>

SpecOrder == InitOrder /\ [][NextOrder]_vars

(***************************************************************************)
(* A model, a Data and a store in one program: the store is unpacked by    *)
(* the model, the model is evaluated on the store and the Data, and the    *)
(* Data and the store are read.  One call runs at a time.                  *)
(***************************************************************************)
Idle == mdlOut = NoCall /\ datOut = NoCall /\ parOut = NoCall

\* the models, over the columns a and b of the data
AccessModels ==
    {ModelPostInit(<<"a", "b">>, coord_bounds, param_names, constraints[1], constraints[2]) :
        coord_bounds \in {<<>>, <<Leaf("a", <<Fin(0), Fin(1)>>)>>},
        param_names \in {<<Tup(<<WEIGHT_NAME>>)>>,
                         <<Tup(<<WEIGHT_NAME>>), Tup(<<"a", "mu">>)>>},
        constraints \in {<< <<>>, <<>> >>,
                         << <<ParameterBounds(Fin(11), PosInf, Tup(<<WEIGHT_NAME>>))>>,
                            <<[logpdf_hook |-> "cancel", forward_hook |-> "shift"]>> >>}}

AccessModelInit ==
    /\ model.state = "unconstructed"
    /\ \E made \in AccessModels : model' = made
    /\ UNCHANGED mdlOut

AccessDataInit ==
    /\ dat.state = "unconstructed"
    /\ \E n \in 1..MaxRows :
          LET array == Raw(2, Arange(n, 2))
              names == SubSeq(ColNames, 1, 2)
              made == DataPostInit(array, names)
          IN  dat' = [state |-> "constructed", given |-> [array |-> array, names |-> names],
                      array |-> made.value.data.array, names |-> made.value.data.names]
    /\ UNCHANGED datOut

\* self.unpack_params_from_arr(p_arr): the schema is the model's param_names
AccessUnpack ==
    /\ model.state = "constructed"
    /\ params.state = "unconstructed"
    /\ \E p_arr \in ParamArrays(Len(model.param_names)) :
          params' = [flats |-> model.param_names, p_arr |-> p_arr]
                        @@ UnpackParamsFromArr(model.param_names, p_arr)
    /\ UNCHANGED parOut

Evaluable ==
    model.state = "constructed" /\ dat.state = "constructed" /\ params.state = "constructed"

\* self.ln_prior(mpars, data, current_lnp) on the store and the Data
AccessLnPrior ==
    /\ Evaluable
    /\ \E current \in {NoneArray, Scalar(Fin(-1))} :
          LET data == Data(dat.array, dat.names)
          IN  mdlOut' = [op |-> "ln_prior", mpars |-> params.dict, data |-> data,
                         current |-> current,
                         result |-> ModelLnPrior(model, params.dict, data, current)]
    /\ UNCHANGED model

\* self._forward_priors(out, data) on the Data
AccessForwardPriors ==
    /\ Evaluable
    /\ \E out \in {RawOutput(0), RawOutput(1)} :
          LET data == Data(dat.array, dat.names)
          IN  mdlOut' = [op |-> "_forward_priors", out |-> out, data |-> data,
                         result |-> ForwardPriors(model, out, data)]
    /\ UNCHANGED model

InitAccess == InitMixture

NextAccess ==
    \/ AccessModelInit /\ UNCHANGED <<mixVars, bndVars, parVars, datVars>>
    \/ AccessDataInit /\ UNCHANGED <<mixVars, bndVars, mdlVars, parVars>>
    \/ AccessUnpack /\ UNCHANGED <<mixVars, bndVars, mdlVars, datVars>>
    \/ Idle /\ AccessLnPrior /\ UNCHANGED <<mixVars, bndVars, parVars, datVars>>
    \/ Idle /\ AccessForwardPriors /\ UNCHANGED <<mixVars, bndVars, parVars, datVars>>
    \/ ModelReturn /\ UNCHANGED <<mixVars, bndVars, parVars, datVars>>
    \/ Idle /\ DataGetItemCall /\ UNCHANGED <<mixVars, bndVars, mdlVars, parVars>>
    \/ Idle /\ DataKeysCall /\ UNCHANGED <<mixVars, bndVars, mdlVars, parVars>>
    \/ Idle /\ DataValuesCall /\ UNCHANGED <<mixVars, bndVars, mdlVars, parVars>>
    \/ Idle /\ DataItemsCall /\ UNCHANGED <<mixVars, bndVars, mdlVars, parVars>>
    \/ DataReturn /\ UNCHANGED <<mixVars, bndVars, mdlVars, parVars>>
    \/ Idle /\ ParamsLookup /\ UNCHANGED <<mixVars, bndVars, mdlVars, datVars>>
    \/ Idle /\ ParamsFlatItems /\ UNCHANGED <<mixVars, bndVars, mdlVars, datVars>>
    \/ Idle /\ ParamsAddPrefix /\ UNCHANGED <<mixVars, bndVars, mdlVars, datVars>>
    \/ Idle /\ ParamsGetPrefixed /\ UNCHANGED <<mixVars, bndVars, mdlVars, datVars>>
    \/ ParamsGetPrefixedOfAdded /\ UNCHANGED <<mixVars, bndVars, mdlVars, datVars>>
    \/ ParamsReturn /\ UNCHANGED <<mixVars, bndVars, mdlVars, datVars>>

SpecAccess == InitAccess /\ [][NextAccess]_vars

(***************************************************************************)
(* Properties of the mixture (SpecMixture).                                *)
(***************************************************************************)
\* the sum of f over the set S of indices
RECURSIVE SetSum(_, _)
SetSum(S, f) ==
    IF S = {} THEN 0
    ELSE LET x == CHOOSE y \in S : TRUE IN f[x] + SetSum(S \ {x}, f)

\* the elementwise sum of arrays of one shape
RECURSIVE ElementwiseSum(_, _)
ElementwiseSum(ret, i) ==
    IF i = 1 THEN ret[1] ELSE ArrAdd(ElementwiseSum(ret, i - 1), ret[i])

\* C1: no constructed mixture has two components whose parameter-name sets
\* share a flat key (construction fails instead).
C1_NoMixtureWithOverlappingKeys ==
    mixture.state = "constructed" =>
        \A i, j \in 1..Len(mixture.models) :
            i # j => mixture.models[i].param_names \cap mixture.models[j].param_names = {}

\* the value of an array at row r (a 0-dimensional array has the one value)
ValueAt(a, r) == IF a.ndim = 0 THEN a.v[1] ELSE a.v[r]

\* C2: the mixture's ln_prior is the sum over components of the components'
\* ln_prior, element by element: at every row the mixture's value is the sum of
\* the components' values at that row, not reduced over the rows.
C2_LnPriorIsElementwiseSum ==
    (mixOut.op = "ln_prior" /\ Len(mixture.models) >= 1) =>
        /\ mixOut.result.status = "ok"
        /\ \A r \in 1..NRows(mixOut.returned[1]) :
              ValueAt(mixOut.result.value, r) =
                  ValueAt(ElementwiseSum(mixOut.returned, Len(mixture.models)), r)

\* C3: for n >= 1 components, ln_likelihood returns for every data row
\* log(sum_i exp(l_i)), l_i being component i's ln_likelihood of that row; every
\* component is called exactly once, with the arguments the mixture was given.
C3_LnLikelihoodIsLogSumExp ==
    (mixOut.op = "ln_likelihood" /\ Len(mixture.models) >= 1) =>
        LET n == Len(mixture.models)
            ret == mixOut.returned
            rows == NRows(ret[1])
        IN  /\ mixOut.result.status = "ok"
            /\ mixOut.result.value.ndim = 2
            /\ NRows(mixOut.result.value) = rows
            /\ \A r \in 1..rows :
                  mixOut.result.value.v[r] =
                      Log(SetSum(1..n, [i \in 1..n |-> Exp(ret[i].v[r])]))
            /\ Len(mixOut.calls) = n
            /\ \A i \in 1..n :
                  Cardinality({j \in 1..Len(mixOut.calls) : mixOut.calls[j].model = i}) = 1
            /\ \A j \in 1..Len(mixOut.calls) : mixOut.calls[j].args = mixOut.args

\* C3's case: two components, two rows; one row sums 1 + 2 = 3, the other 0 + 0
C3_Witness ==
    /\ mixOut.op = "ln_likelihood"
    /\ Len(mixture.models) = 2
    /\ mixOut.returned = <<Column(<<Fin(0), NegInf>>), Column(<<Fin(1), NegInf>>)>>
    /\ mixOut.result = Ok(Column(<<LogOf(3), NegInf>>))

(***************************************************************************)
(* Properties of ParameterBounds.logpdf (SpecBounds).                      *)
(***************************************************************************)
\* the array the bound governs: the leaf of mpars under param_name, if there is one
HasGoverned(d, pn) ==
    /\ pn.type = "tuple"
    /\ \/ /\ Len(pn.s) = 1
          /\ \E i \in 1..Len(d) : d[i].key = pn.s[1] /\ ~IsMapping(d[i])
       \/ /\ Len(pn.s) = 2
          /\ \E i \in 1..Len(d) :
                /\ d[i].key = pn.s[1] /\ IsMapping(d[i])
                /\ \E j \in 1..Len(d[i].items) : d[i].items[j].key = pn.s[2]

Governed(d, pn) ==
    IF Len(pn.s) = 1
    THEN (CHOOSE e \in {d[i] : i \in 1..Len(d)} : e.key = pn.s[1]).value
    ELSE LET cm == CHOOSE e \in {d[i] : i \in 1..Len(d)} : e.key = pn.s[1]
         IN  (CHOOSE e \in {cm.items[j] : j \in 1..Len(cm.items)} : e.key = pn.s[2]).value

\* lower <= x <= upper, for a finite x
InClosedInterval(x, lower, upper) ==
    /\ lower.k = "-inf" \/ (lower.k = "fin" /\ lower.n <= x.n)
    /\ upper.k = "+inf" \/ (upper.k = "fin" /\ x.n <= upper.n)

\* the penalty of bound b on the array x: 0 inside [lower, upper], -inf outside
Penalty(b, x) ==
    Column([r \in 1..Len(x.v) |->
               IF InClosedInterval(x.v[r], b.lower, b.upper) THEN Fin(0) ELSE NegInf])

\* C4 as stated: logpdf returns current plus the penalty (the penalty alone
\* when current is omitted).
C4_LogpdfReturnsCurrentPlusPenalty ==
    (bndOut.op = "logpdf" /\ HasGoverned(bndOut.mpars, bound.param_name)) =>
        LET pen == Penalty(bound, Governed(bndOut.mpars, bound.param_name))
        IN  bndOut.result =
                Ok(IF bndOut.current = NoneArray THEN pen ELSE ArrAdd(bndOut.current, pen))

\* C4 amended: logpdf returns the penalty alone, whatever current the caller
\* supplies: 0 for a row inside [lower, upper], -inf otherwise.
C4_LogpdfReturnsPenaltyAlone ==
    (bndOut.op = "logpdf" /\ HasGoverned(bndOut.mpars, bound.param_name)) =>
        bndOut.result = Ok(Penalty(bound, Governed(bndOut.mpars, bound.param_name)))

\* C4's case: a call with current = -1 on a parameter inside its bounds
C4_Witness ==
    /\ bndOut.op = "logpdf"
    /\ bndOut.current = Scalar(Fin(-1))
    /\ bound.param_name = Tup(<<"weight">>)
    /\ bound.lower = Fin(0) /\ bound.upper = Fin(2)
    /\ bndOut.result = Ok(Column(<<Fin(0), Fin(0)>>))

\* C5: with param_name set, every row's penalty is decided by that row alone:
\* 0 if and only if lower <= value <= upper (bounds inclusive), -inf otherwise.
C5_PenaltyPerRowInclusive ==
    (bndOut.op = "logpdf" /\ HasGoverned(bndOut.mpars, bound.param_name)) =>
        LET x == Governed(bndOut.mpars, bound.param_name)
        IN  /\ bndOut.result.status = "ok"
            /\ Len(bndOut.result.value.v) = Len(x.v)
            /\ \A r \in 1..Len(x.v) :
                  /\ bndOut.result.value.v[r] \in {Fin(0), NegInf}
                  /\ bndOut.result.value.v[r] = Fin(0) <=>
                        /\ Leq(bound.lower, x.v[r])
                        /\ Leq(x.v[r], bound.upper)

\* C5's case: lower = 0, upper = 1 on weight; a row with 0.5 and a row with 1.5
\* in the same call (values are in units of 1/2)
C5_Witness ==
    /\ bndOut.op = "logpdf"
    /\ bound.param_name = Tup(<<"weight">>)
    /\ bound.lower = Fin(0) /\ bound.upper = Fin(2)
    /\ bndOut.mpars = <<Leaf("weight", Column(<<Fin(1), Fin(3)>>))>>
    /\ bndOut.result = Ok(Column(<<Fin(0), NegInf>>))

\* C6: logpdf on a bound whose param_name is None raises ValueError, whatever
\* mpars and current are, and before any parameter is looked up.
C6_UnsetParamNameRaises ==
    (bndOut.op = "logpdf" /\ bound.param_name = None) =>
        bndOut.result = Raise("ValueError")

\* C6's case: param_name is None and mpars is empty
C6_Witness ==
    /\ bndOut.op = "logpdf"
    /\ bound.param_name = None
    /\ bndOut.mpars = <<>>
    /\ bndOut.result.status = "ValueError"

(***************************************************************************)
(* Properties of the parameter store (SpecParams).                         *)
(***************************************************************************)
IsPair(key) == Len(key.s) = 2

\* flat keys distinct, and no name both an unconditional key and a coordinate
DistinctNames(S) ==
    /\ \A i, j \in 1..Len(S) : i # j => S[i] # S[j]
    /\ \A i, j \in 1..Len(S) : (~IsPair(S[i]) /\ IsPair(S[j])) => S[i].s[1] # S[j].s[1]

\* a schema as a grouped declaration gives it: flat keys distinct, no name both
\* an unconditional key and a coordinate, each coordinate's keys adjacent
GroupedSchema(S) ==
    /\ DistinctNames(S)
    /\ \A i, j, l \in 1..Len(S) :
          (i < j /\ j < l /\ IsPair(S[i]) /\ IsPair(S[l]) /\ S[i].s[1] = S[l].s[1]) =>
              (IsPair(S[j]) /\ S[j].s[1] = S[i].s[1])

\* flatitems yields len(S) entries, the i-th with column i of the raw array
FlatRoundTrip ==
    /\ Len(parOut.result) = Len(params.flats)
    /\ \A i \in 1..Len(params.flats) :
          i <= Len(parOut.result) =>
              parOut.result[i].value =
                  [ndim |-> 2, v |-> [r \in 1..Len(params.p_arr) |-> params.p_arr[r][i]]]

\* C9 as stated: for a schema of distinct flat keys in any declared order,
\* flatitems of the unpacked store yields len(S) entries, the i-th being column i.
C9_FlatRoundTripAnyOrder ==
    (parOut.op = "flatitems" /\ DistinctNames(params.flats)) => FlatRoundTrip

\* C9 amended: for a schema with distinct flat keys, no name both unconditional
\* and a coordinate, and each coordinate's keys adjacent, unpack builds a store
\* and flatitems yields len(S) entries, the i-th being column i.
C9_FlatRoundTripGroupedSchema ==
    /\ (params.state # "unconstructed" /\ GroupedSchema(params.flats)) =>
           params.state = "constructed"
    /\ (parOut.op = "flatitems" /\ GroupedSchema(params.flats)) => FlatRoundTrip

\* C9's case: an unconditional key and a coordinate with two parameters
C9_Witness ==
    /\ parOut.op = "flatitems"
    /\ params.flats = <<Tup(<<"weight">>), Tup(<<"phi2", "mu">>), Tup(<<"phi2", "sigma">>)>>
    /\ Len(params.p_arr) = 2
    /\ Len(parOut.result) = 3
    /\ parOut.result[3].key = "phi2_sigma"

\* the entries of a dict
Entries(d) == {d[i] : i \in 1..Len(d)}

\* C10: a string k or a tuple (k,) gives the top-level entry for k; a tuple
\* (c, p) gives entry p of the nested mapping under c; KeyError when the key or
\* the nested key is missing, when the entry under c is no mapping, and for a
\* tuple of no or of three or more names; nothing else is ever returned.
C10_Lookup ==
    parOut.op = "getitem" =>
        LET key == parOut.key
            d == params.dict
            res == parOut.result
        IN  /\ res.status \in {"ok", "KeyError"}
            /\ (key.type = "str" \/ Len(key.s) = 1) =>
                  /\ res.status = "ok" <=> \E e \in Entries(d) : e.key = key.s[1]
                  /\ res.status = "ok" => (res.value \in Entries(d) /\ res.value.key = key.s[1])
            /\ (key.type = "tuple" /\ Len(key.s) = 2) =>
                  /\ res.status = "ok" <=>
                        \E e \in Entries(d) :
                            /\ e.key = key.s[1] /\ IsMapping(e)
                            /\ \E f \in Entries(e.items) : f.key = key.s[2]
                  /\ res.status = "ok" =>
                        \E e \in Entries(d) :
                            /\ e.key = key.s[1] /\ IsMapping(e)
                            /\ res.value \in Entries(e.items) /\ res.value.key = key.s[2]
            /\ (key.type = "tuple" /\ Len(key.s) \notin {1, 2}) => res.status = "KeyError"

\* C10's case: a two-element key whose first name holds an array, not a mapping
C10_Witness ==
    /\ parOut.op = "getitem"
    /\ parOut.key = Tup(<<"weight", "mu">>)
    /\ \E e \in Entries(params.dict) : e.key = "weight" /\ ~IsMapping(e)
    /\ \E e \in Entries(params.dict) : e.key = "phi2" /\ IsMapping(e)
    /\ parOut.result = Raise("KeyError")

\* C11: add_prefix(prefix) returns a store with as many entries, whose top-level
\* keys are prefix + "." + k for each original key k, in order, values unchanged.
C11_AddPrefixJoinsWithDot ==
    parOut.op = "add_prefix" =>
        /\ Len(parOut.result) = Len(params.dict)
        /\ \A i \in 1..Len(params.dict) :
              parOut.result[i] =
                  [params.dict[i] EXCEPT !.key = parOut.prefix \o "." \o params.dict[i].key]

\* the leaves of a store: its top-level arrays and the entries of its mappings
RECURSIVE LeafCount(_)
LeafCount(d) ==
    IF d = <<>> THEN 0
    ELSE (IF IsMapping(d[1]) THEN Len(d[1].items) ELSE 1) + LeafCount(Tail(d))

\* C22: the flat keys of every store are pairwise distinct: no two leaves give
\* the same joined key, so a mapping built from flatitems() has as many
\* entries as the store has leaves.
C22_FlatKeysAreDistinct ==
    parOut.op = "flatitems" =>
        /\ Len(parOut.result) = LeafCount(params.dict)
        /\ \A i, j \in 1..Len(parOut.result) :
              parOut.result[i].key = parOut.result[j].key => i = j
        /\ Cardinality({parOut.result[i].key : i \in 1..Len(parOut.result)})
              = LeafCount(params.dict)

\* the flat keys are distinct where no top-level name holds an underscore
FlatKeysAreDistinctWithoutUnderscore ==
    (parOut.op = "flatitems" /\ Find(params.dict, "phi2_mu") = 0) =>
        \A i, j \in 1..Len(parOut.result) :
            parOut.result[i].key = parOut.result[j].key => i = j

\* C23: for every store p and prefix s, with or without a trailing ".",
\* p.add_prefix(s).get_prefixed(s) has the keys and values of p.
C23_PrefixRoundTrip ==
    (parOut.op = "get_prefixed" /\ parOut.added = <<parOut.prefix>>) =>
        parOut.result = params.dict

\* the round trip returns the store where the prefix that was added ends in "."
PrefixRoundTripWithTrailingDot ==
    (parOut.op = "get_prefixed" /\ parOut.added = <<"stream.">>) =>
        parOut.result = params.dict

(***************************************************************************)
(* Properties of ModelBase (SpecCoords, SpecLnPrior).                      *)
(***************************************************************************)
\* the value of coordinate k in row r of the data
CoordValue(data, k, r) ==
    data.array[r][CHOOSE i \in 1..Len(data.names) : data.names[i] = k]

\* C8: for every data row the coordinate-bounds penalty is -inf if at least one
\* coordinate of coord_bounds has its value in that row outside its bounds, and
\* 0 if all coordinates are within bounds; no row is penalised for another
\* row's values, and a coordinate with bounds (-inf, +inf) never penalises.
C8_CoordPenaltyPerRow ==
    mdlOut.op = "_ln_prior_coord_bnds" =>
        /\ mdlOut.result.status = "ok"
        /\ Len(mdlOut.result.value.v) = Len(mdlOut.data.array)
        /\ \A r \in 1..Len(mdlOut.data.array) :
              mdlOut.result.value.v[r] =
                  IF \E cb \in Entries(model.coord_bounds) :
                        ~InClosedInterval(CoordValue(mdlOut.data, cb.key, r),
                                          cb.value[1], cb.value[2])
                  THEN NegInf ELSE Fin(0)

\* the same on the models that have a coordinate
CoordPenaltyPerRowWithCoordinates ==
    (model.state = "constructed" /\ Len(model.coord_names) > 0) => C8_CoordPenaltyPerRow

\* the coordinate-bounds penalty of model m on the data: per row, -inf if a
\* coordinate of coord_bounds is outside its bounds, 0 otherwise
CoordPenalty(m, data) ==
    Column([r \in 1..Len(data.array) |->
               IF \E cb \in Entries(m.coord_bounds) :
                     ~InClosedInterval(CoordValue(data, cb.key, r), cb.value[1], cb.value[2])
               THEN NegInf ELSE Fin(0)])

\* the elementwise sum of a sequence of arrays (0 for none)
RECURSIVE SumArrays(_)
SumArrays(as) ==
    IF as = <<>> THEN Scalar(Fin(0)) ELSE ArrAdd(as[1], SumArrays(Tail(as)))

\* what a prior's hook adds on n rows
Contribution(prior, n) ==
    IF prior.logpdf_hook = "const" THEN Scalar(Fin(-1))
    ELSE Column([r \in 1..n |-> Fin(0 - r)])

\* current + coordinate-bounds penalty + penalties of the parameter bounds +
\* contributions of the priors, each taken once
SumCountedOnce ==
    LET n == Len(mdlOut.data.array)
        current == IF mdlOut.current = NoneArray THEN Scalar(Fin(0)) ELSE mdlOut.current
        bounds == [i \in 1..Len(model.param_bounds) |->
                      Penalty(model.param_bounds[i],
                              Governed(mdlOut.mpars, model.param_bounds[i].param_name))]
        priors == [i \in 1..Len(model.priors) |-> Contribution(model.priors[i], n)]
    IN  ArrAdd(ArrAdd(current, CoordPenalty(model, mdlOut.data)),
               ArrAdd(SumArrays(bounds), SumArrays(priors)))

\* C7: for every component model, ln_prior is current + the coordinate-bounds
\* penalty + the sum of the penalties of the parameter bounds + the sum of the
\* contributions of the priors, each counted once (the running total passed to
\* logpdf as current is not added again).
C7_LnPriorCountsEachOnce ==
    mdlOut.op = "ln_prior" => mdlOut.result = Ok(SumCountedOnce)

\* the same on the models that have a coordinate
LnPriorCountsEachOnceWithCoordinates ==
    (mdlOut.op = "ln_prior" /\ Len(model.coord_names) > 0) =>
        mdlOut.result = Ok(SumCountedOnce)

\* a model with a coordinate, two parameter bounds and a prior, called with
\* current = -1; the first row is inside every bound, the second outside one
LnPriorOnTwoBoundsAndAPrior ==
    /\ mdlOut.op = "ln_prior"
    /\ mdlOut.current = Scalar(Fin(-1))
    /\ Len(model.coord_bounds) = 1
    /\ Len(model.param_bounds) = 2
    /\ model.priors = <<[logpdf_hook |-> "const"]>>
    /\ mdlOut.result = Ok(Column(<<Fin(-2), NegInf>>))

\* C24: a model with no coordinates has a well-defined prior: its
\* coordinate-bounds penalty is 0 for every row, and ln_prior returns current
\* plus the penalties of the bounds and the contributions of the priors,
\* without raising.
C24_NoCoordinatesPriorDefined ==
    model.state = "constructed" /\ model.coord_names = <<>> =>
        /\ mdlOut.op = "_ln_prior_coord_bnds" =>
              mdlOut.result = Ok(Column([r \in 1..Len(mdlOut.data.array) |-> Fin(0)]))
        /\ mdlOut.op = "ln_prior" =>
              /\ CoordPenalty(model, mdlOut.data) =
                    Column([r \in 1..Len(mdlOut.data.array) |-> Fin(0)])
              /\ mdlOut.result = Ok(SumCountedOnce)

(***************************************************************************)
(* Properties of Data (SpecData).                                          *)
(***************************************************************************)
\* the Data a call returned, if it returned one
ReturnedData == datOut.result.value.data
ReturnsData ==
    /\ datOut.op = "getitem"
    /\ datOut.result.status = "ok"
    /\ datOut.result.value.kind = "Data"

\* the array argument has a column count (it is 2D, or a Data)
HasColumns(array) == array.kind = "Data" \/ array.ndim = 2
ColumnCount(array) ==
    IF array.kind = "Data" THEN Len(array.data.array[1]) ELSE Len(array.v[1])

\* C12: construction with names whose length differs from the array's column
\* count raises ValueError; every Data that exists, the ones indexing returns
\* included, has as many names as columns.
C12_NamesMatchColumns ==
    /\ (dat.state # "unconstructed" /\ HasColumns(dat.given.array)
          /\ Len(dat.given.names) # ColumnCount(dat.given.array)) =>
           dat.state = "ValueError"
    /\ dat.state = "constructed" =>
           \A r \in 1..Len(dat.array) : Len(dat.array[r]) = Len(dat.names)
    /\ ReturnsData =>
           \A r \in 1..Len(ReturnedData.array) :
               Len(ReturnedData.array[r]) = Len(ReturnedData.names)

\* C12's case: a 2 x 3 array given two names
C12_Witness ==
    /\ dat.state = "ValueError"
    /\ dat.given.array = Raw(2, Arange(2, 3))
    /\ dat.given.names = <<"a", "b">>

\* C13: construction from an array that is itself a Data raises TypeError,
\* whatever the names are.
C13_WrappingDataRaisesTypeError ==
    (dat.state # "unconstructed" /\ dat.given.array.kind = "Data") =>
        dat.state = "TypeError"

\* no Data whose array is a Data is constructed
NoNestedData ==
    (dat.state # "unconstructed" /\ dat.given.array.kind = "Data") =>
        dat.state \in {"TypeError", "ValueError"}

PairwiseDistinct(names) == \A i, j \in 1..Len(names) : i # j => names[i] # names[j]

\* C14: the names of every Data are pairwise distinct, of a constructed one and
\* of one returned by indexing.
C14_NamesAreUnique ==
    /\ dat.state = "constructed" => PairwiseDistinct(dat.names)
    /\ ReturnsData => PairwiseDistinct(ReturnedData.names)

\* a tuple of names, all of them names of the data
IsNamesTuple(key) ==
    /\ key.type = "tuple"
    /\ AllStrs(key.elts)
    /\ \A k \in 1..Len(key.elts) : HasName(dat.names, key.elts[k].s[1])

\* the call returned the columns named t, in t's order, with all rows
SelectsColumns(t) ==
    /\ ReturnsData
    /\ ReturnedData.names = [j \in 1..Len(t) |-> t[j].s[1]]
    /\ Len(ReturnedData.array) = Len(dat.array)
    /\ \A j \in 1..Len(t) :
          \E c \in 1..Len(dat.names) :
             /\ dat.names[c] = t[j].s[1]
             /\ \A r \in 1..Len(dat.array) :
                   /\ Len(ReturnedData.array[r]) = Len(t)
                   /\ ReturnedData.array[r][j] = dat.array[r][c]

\* C15: a tuple t of existing names, as data[t] or as data[:, t], returns a Data
\* with names t in the order given, whose j-th column is the original column
\* named t[j], all rows kept.
C15_SelectByNames ==
    datOut.op = "getitem" =>
        /\ IsNamesTuple(datOut.key) => SelectsColumns(datOut.key.elts)
        /\ (/\ datOut.key.type = "tuple"
            /\ Len(datOut.key.elts) = 2
            /\ datOut.key.elts[1] = Slice(<<>>, <<>>)
            /\ IsNamesTuple(datOut.key.elts[2])) => SelectsColumns(datOut.key.elts[2].elts)

\* C15's case: names (a,b,c,d), values 0..11 in three rows, data[:, ("a", "b")]
C15_Witness ==
    /\ dat.state = "constructed"
    /\ dat.names = <<"a", "b", "c", "d">>
    /\ dat.array = Arange(3, 4)
    /\ datOut.op = "getitem"
    /\ datOut.key = Tuple(<<Slice(<<>>, <<>>), Tuple(<<Str("a"), Str("b")>>)>>)
    /\ datOut.result =
          Ok(Wrapped(Data(<<<<Fin(0), Fin(1)>>, <<Fin(4), Fin(5)>>, <<Fin(8), Fin(9)>>>>,
                          <<"a", "b">>)))

\* a column key that is a slice, or a list or tuple of columns of the data
\* the slice of integers of a slice of names: each name's column index
IndexSlice(ck) == Slice(NamedBound(ck.from, dat.names), NamedBound(ck.to, dat.names))

\* a slice of names all of which the data has
IsNameSliceOfData(ck) ==
    /\ IsNameSlice(ck)
    /\ ck.from # <<>> => HasName(dat.names, ck.from[1])
    /\ ck.to # <<>> => HasName(dat.names, ck.to[1])

IsColumnsKey(ck) ==
    \/ ck.type = "slice" /\ (IsNameSlice(ck) => IsNameSliceOfData(ck))
    \/ /\ ck.type \in {"list", "tuple"}
       /\ \A k \in 1..Len(ck.elts) :
             \/ ck.elts[k].type = "int" /\ InRange(ck.elts[k].i, Len(dat.names))
             \/ ck.elts[k].type = "str" /\ HasName(dat.names, ck.elts[k].s[1])

\* how many columns a columns key selects
SelectedCount(ck) ==
    IF IsNameSlice(ck) THEN Len(SliceIndices(IndexSlice(ck), Len(dat.names)))
    ELSE IF ck.type = "slice" THEN Len(SliceIndices(ck, Len(dat.names)))
    ELSE Len(ck.elts)

\* C16: d[i] for a valid row index i is a Data with the same names and the 2D
\* array of the one row i; a compound key of the int i and a slice, list or
\* tuple of columns gives a Data of exactly one row, one column per selected name.
C16_RowSelectionKeepsTwoDimensions ==
    datOut.op = "getitem" =>
        /\ (datOut.key.type = "int" /\ InRange(datOut.key.i, Len(dat.array))) =>
              datOut.result =
                  Ok(Wrapped(Data(<<dat.array[Pos(datOut.key.i, Len(dat.array))]>>,
                                  dat.names)))
        /\ (/\ datOut.key.type = "tuple"
            /\ Len(datOut.key.elts) = 2
            /\ datOut.key.elts[1].type = "int"
            /\ InRange(datOut.key.elts[1].i, Len(dat.array))
            /\ IsColumnsKey(datOut.key.elts[2])) =>
              /\ ReturnsData
              /\ Len(ReturnedData.array) = 1
              /\ Len(ReturnedData.array[1]) = SelectedCount(datOut.key.elts[2])
              /\ Len(ReturnedData.names) = SelectedCount(datOut.key.elts[2])

\* C16 holds where the column part is no slice of names
RowSelectionKeepsTwoDimensionsWithoutNameSlices ==
    (datOut.op = "getitem" /\ datOut.key.type = "tuple" /\ Len(datOut.key.elts) = 2
        /\ IsNameSlice(datOut.key.elts[2]))
    \/ C16_RowSelectionKeepsTwoDimensions

\* C16's case: data[0, [0, 2]] on three rows of (a,b,c,d)
C16_Witness ==
    /\ dat.state = "constructed"
    /\ dat.names = <<"a", "b", "c", "d">>
    /\ dat.array = Arange(3, 4)
    /\ datOut.op = "getitem"
    /\ datOut.key = Tuple(<<Idx(0), List(<<Idx(0), Idx(2)>>)>>)
    /\ datOut.result = Ok(Wrapped(Data(<<<<Fin(0), Fin(2)>>>>, <<"a", "c">>)))

\* an integer slice, or a list of integer column indices of the data
IsIntColumnsKey(ck) ==
    \/ ck.type = "slice" /\ ~IsNameSlice(ck)
    \/ /\ ck.type = "list"
       /\ \A k \in 1..Len(ck.elts) :
             ck.elts[k].type = "int" /\ InRange(ck.elts[k].i, Len(dat.names))

\* the positions an index selects along an axis of extent n
Selected(key, n) ==
    IF key.type = "int" THEN <<Pos(key.i, n)>>
    ELSE IF key.type = "slice" THEN SliceIndices(key, n)
    ELSE [k \in 1..Len(key.elts) |-> Pos(key.elts[k].i, n)]

\* a row key the data has rows for
IsRowsKey(rk) ==
    \/ rk.type = "int" /\ InRange(rk.i, Len(dat.array))
    \/ rk.type = "slice"
    \/ /\ rk.type = "list"
       /\ \A k \in 1..Len(rk.elts) :
             rk.elts[k].type = "int" /\ InRange(rk.elts[k].i, Len(dat.array))

\* the compound key (rk, ck) returned the Data of the selected rows and columns
SelectsRowsAndColumns(rk, ck) ==
    LET R == Selected(rk, Len(dat.array))
        K == Selected(ck, Len(dat.names))
    IN  datOut.result =
            Ok(Wrapped(Data([i \in 1..Len(R) |-> [j \in 1..Len(K) |-> dat.array[R[i]][K[j]]]],
                            [j \in 1..Len(K) |-> dat.names[K[j]]])))

\* C17: for a compound key (row_key, column_key) with an integer slice or a list
\* of integer column indices as column_key, the result is a Data whose names are
\* the original names at the selected indices, in selection order, and whose
\* columns are the original columns at those indices; with a single integer as
\* column_key the result is the raw array element(s), not a Data.
C17_CompoundKeySelectsColumns ==
    (/\ datOut.op = "getitem"
     /\ datOut.key.type = "tuple"
     /\ Len(datOut.key.elts) = 2
     /\ IsRowsKey(datOut.key.elts[1])) =>
        /\ IsIntColumnsKey(datOut.key.elts[2]) =>
              SelectsRowsAndColumns(datOut.key.elts[1], datOut.key.elts[2])
        /\ (datOut.key.elts[2].type = "int"
              /\ InRange(datOut.key.elts[2].i, Len(dat.names))) =>
              /\ datOut.result.status = "ok"
              /\ datOut.result.value.kind = "array"

\* the same for the row keys that are an int or a slice
CompoundKeySelectsColumnsOfBasicRows ==
    (datOut.op = "getitem" /\ datOut.key.type = "tuple" /\ Len(datOut.key.elts) = 2
       /\ datOut.key.elts[1].type \in {"int", "slice"}) =>
        C17_CompoundKeySelectsColumns

\* C25: a compound key whose column part is a slice of column names, as
\* data[:, "a":"c"], returns the same Data, values and names, as the slice of
\* the column indices of those names, data[:, 0:2].
C25_NameSliceEqualsIndexSlice ==
    (/\ datOut.op = "getitem"
     /\ datOut.key.type = "tuple"
     /\ Len(datOut.key.elts) = 2
     /\ IsNameSliceOfData(datOut.key.elts[2])) =>
        datOut.result =
            DataGetItem(Data(dat.array, dat.names),
                        Tuple(<<datOut.key.elts[1], IndexSlice(datOut.key.elts[2])>>))

(***************************************************************************)
(* Properties of the construction of a component model (SpecCoords).       *)
(***************************************************************************)
\* name is one of the names of the sequence
InNames(name, names) == \E i \in 1..Len(names) : names[i] = name

\* the keys of the given coord_bounds that are not coordinate names, in order
ExtraKeys(given) ==
    LET IsExtra(item) == ~InNames(item.key, given.coord_names)
        extra == SelectSeq(given.coord_bounds, IsExtra)
    IN  [i \in 1..Len(extra) |-> extra[i].key]

ExpectedBound(given, name) ==
    IF Find(given.coord_bounds, name) = 0 THEN <<NegInf, PosInf>>
    ELSE given.coord_bounds[Find(given.coord_bounds, name)].value

\* the keys of coord_bounds are coord_names, and each bound is the given or default one
BoundsCompleted(m) ==
    /\ [i \in 1..Len(m.coord_bounds) |-> m.coord_bounds[i].key] = m.coord_names
    /\ \A i \in 1..Len(m.coord_bounds) :
          m.coord_bounds[i].value = ExpectedBound(m.given, m.coord_bounds[i].key)
    /\ \A i \in 1..Len(m.given.coord_bounds) :
          \E j \in 1..Len(m.coord_bounds) : m.coord_bounds[j] = m.given.coord_bounds[i]

\* C19: after a successful construction coord_bounds has exactly the keys of
\* coord_names, in that order; each is the explicitly given bound, or
\* (-inf, +inf) where none was given; no given bound is lost or replaced.
C19_CoordBoundsCompleted ==
    model.state = "constructed" => BoundsCompleted(model)

\* C19 holds where the names of coord_names are pairwise distinct
CoordBoundsCompletedForDistinctNames ==
    (model.state = "constructed" /\ Distinct(model.coord_names) = model.coord_names)
        => BoundsCompleted(model)

\* a model of two coordinates, one bound given and one defaulted
CompletedOneGivenOneDefault ==
    /\ model.state = "constructed"
    /\ model.coord_names = <<"plx", "phi2">>
    /\ model.given.coord_bounds = <<Leaf("phi2", <<Fin(0), Fin(1)>>)>>
    /\ model.coord_bounds = <<Leaf("plx", <<NegInf, PosInf>>), Leaf("phi2", <<Fin(0), Fin(1)>>)>>

(***************************************************************************)
(* Properties of the order of evaluation (SpecOrder).                      *)
(***************************************************************************)
\* the steps of a model in the order of the claim: the bounds in flat order,
\* then the priors
StepsInOrder(m) ==
    [i \in 1..Len(m.param_bounds) |-> [kind |-> "bound", bound |-> m.param_bounds[i]]]
    \o [j \in 1..Len(m.priors) |-> [kind |-> "prior", prior |-> m.priors[j]]]

\* the forward function of a step
ForwardOf(step) ==
    IF step.kind = "bound" THEN [kind |-> "bound", bound |-> step.bound]
    ELSE [kind |-> "hook", hook |-> step.prior.forward_hook]

\* the first i steps applied as a chain: step i is given the output of step i - 1
RECURSIVE Chain(_, _, _)
Chain(steps, out, i) ==
    IF i = 0 THEN out
    ELSE Applied(ForwardOf(steps[i]), Chain(steps, out, i - 1))

\* the log-prior term of a step, given the total so far
TermOf(step, m, mpars, data, lnp) ==
    IF step.kind = "coord" THEN LnPriorCoordBnds(m, mpars, data)
    ELSE IF step.kind = "bound" THEN BoundLogpdf(step.bound, mpars, lnp)
    ELSE PriorLogpdf(step.prior, mpars, lnp)

\* the total after the steps i.., each evaluated once on the total before it;
\* the first step that raises ends the evaluation
RECURSIVE EvaluateInOrder(_, _, _, _, _, _)
EvaluateInOrder(steps, m, mpars, data, lnp, i) ==
    IF i > Len(steps) THEN Ok(lnp)
    ELSE LET term == TermOf(steps[i], m, mpars, data, lnp)
         IN  IF term.status # "ok" THEN term
             ELSE EvaluateInOrder(steps, m, mpars, data, ArrAdd(lnp, term.value), i + 1)

\* C20: _forward_priors applies the forward step of every parameter bound in
\* flat order and then the forward hook of every prior in priors order, each
\* once and on the output of the step before it; ln_prior evaluates the
\* coordinate-bounds penalty first, then the logpdf of every bound, then the
\* logpdf of every prior, in the same orders.
C20_FixedEvaluationOrder ==
    /\ mdlOut.op = "_forward_priors" =>
          mdlOut.result = Chain(StepsInOrder(model), mdlOut.out, Len(StepsInOrder(model)))
    /\ mdlOut.op = "ln_prior" =>
          mdlOut.result =
              EvaluateInOrder(<<[kind |-> "coord"]>> \o StepsInOrder(model), model,
                              mdlOut.mpars, mdlOut.data,
                              IF mdlOut.current = NoneArray THEN Scalar(Fin(0))
                              ELSE mdlOut.current, 1)

\* two bounds and two priors were applied to a raw output as a chain
C20_Witness ==
    /\ mdlOut.op = "_forward_priors"
    /\ Len(model.param_bounds) = 2 /\ model.param_bounds[1] # model.param_bounds[2]
    /\ Len(model.priors) = 2 /\ model.priors[1] # model.priors[2]
    /\ mdlOut.result.fn = [kind |-> "hook", hook |-> model.priors[2].forward_hook]
    /\ mdlOut.result.arg.arg.arg.arg = mdlOut.out

\* ln_prior on a row outside the bound of the weight, with the cancelling
\* prior after it: the total is nan, which it is in no other order
LnPriorSawTheBoundBeforeThePrior ==
    /\ mdlOut.op = "ln_prior"
    /\ model.coord_names = <<"phi2">>
    /\ Len(model.param_bounds) = 1 /\ Len(model.priors) = 1
    /\ model.priors[1].logpdf_hook = "cancel"
    /\ mdlOut.result.status = "ok"
    /\ \E r \in 1..Len(mdlOut.result.value.v) : mdlOut.result.value.v[r] = NaN

(***************************************************************************)
(* Properties of the program of a model, a Data and a store (SpecAccess).  *)
(***************************************************************************)
\* no step changes an entity that has been constructed
ConstructedStaysEqual ==
    /\ model.state = "constructed" => model' = model
    /\ dat.state = "constructed" => dat' = dat
    /\ params.state = "constructed" => params' = params

\* the result of the call that has just run is the result of the same call on
\* the entities as they are after it
Repeatable ==
    /\ mdlOut.op = "ln_prior" =>
          mdlOut.result = ModelLnPrior(model, params.dict, Data(dat.array, dat.names),
                                       mdlOut.current)
    /\ mdlOut.op = "_forward_priors" =>
          mdlOut.result = ForwardPriors(model, mdlOut.out, Data(dat.array, dat.names))
    /\ datOut.op = "getitem" =>
          datOut.result = DataGetItem(Data(dat.array, dat.names), datOut.key)
    /\ datOut.op = "keys" => datOut.result = dat.given.names
    /\ datOut.op = "values" => datOut.result = DataValues(Data(dat.array, dat.names))
    /\ datOut.op = "items" => datOut.result = DataItems(Data(dat.array, dat.names))
    /\ parOut.op = "getitem" => parOut.result = ParamsGetItem(params.dict, parOut.key)
    /\ parOut.op = "flatitems" => parOut.result = FlatItems(params.dict)
    /\ parOut.op = "add_prefix" => parOut.result = AddPrefix(params.dict, parOut.prefix)
    /\ (parOut.op = "get_prefixed" /\ parOut.added = <<>>) =>
          parOut.result = GetPrefixed(params.dict, parOut.prefix)
    /\ params.state = "constructed" =>
          params.dict = UnpackParamsFromArr(model.param_names, params.p_arr).dict

\* C21: evaluation and access have no effect on shared state: through every
\* sequence of calls of ln_prior, _forward_priors, unpack_params_from_arr, the
\* indexing, keys, values and items of the Data and the lookup, flatitems,
\* get_prefixed and add_prefix of the store, the model, the Data and the store
\* stay equal to what they were after construction, and a call repeated on
\* the same inputs gives the same result.
C21_AccessLeavesStateUnchanged ==
    [][ConstructedStaysEqual]_vars /\ [](Repeatable)

\* ln_prior has run on the store the model unpacked and on the Data
C21_Witness ==
    /\ Evaluable
    /\ mdlOut.op = "ln_prior"
    /\ mdlOut.mpars = params.dict
    /\ mdlOut.data.array = dat.given.array.v
    /\ Len(model.priors) = 1 /\ Len(model.param_bounds) = 1
    /\ mdlOut.result.status = "ok"
====
